---- MODULE Spec2Model ----
(***************************************************************************)
(* Drill-down map: the focus state machine of SiteMap                      *)
(* (src/components/map/SiteMap.tsx) and the single-country focus machine   *)
(* of MapContainer (src/components/map/MapContainer.tsx), and the cache of  *)
(* loaded collections of src/lib/geoDataService.ts.  Further parts, each    *)
(* with a specification of its own: the loaders of geoDataService          *)
(* (SpecService), the backend health check and fallback of                 *)
(* src/lib/geoDataProvider.ts (SpecProvider), the antimeridian repair and  *)
(* the fit bounds (SpecGeometry), normalizeGeoData (SpecDecoding), the     *)
(* zoom computed from bounds in src/lib/mapUtils.ts (SpecZoom), and the    *)
(* per-country file names of GEO_PATHS.adminByCountry (SpecSlug).          *)
(*                                                                         *)
(* React state is a set of variables; an event handler together with the   *)
(* render and the effects it triggers is one atomic action (state updates  *)
(* of one handler are batched, passive effects are flushed before the next *)
(* event).  The asynchronous parts -- a pending loader promise, a pending  *)
(* setTimeout callback -- are separate actions.                            *)
(***************************************************************************)
EXTENDS Integers, Sequences, FiniteSets, Bags, TLC

\* ------------------------------------------------------------------------
\* Bounds of the model
\* ------------------------------------------------------------------------
MaxNames == 2
MaxHoverNames == 1
MaxTimers == 2
MaxPaths == 2
MaxRevisions == 2
MaxInFlight == 2
MaxRequests == 2
MaxTicks == 2
MaxLngs == 4
MaxKeys == 3
MaxRawNames == 3
MaxSpans == 4
MaxChars == 4
MaxNameLen == 4

\* ------------------------------------------------------------------------
\* Program constants
\* ------------------------------------------------------------------------
MAX_FOCUS_LEVEL == 4

\* Levels that have an entry in LEVEL_CONFIGS (0 = world, 1 = admin-1).
LEVEL_CONFIGS == {0, 1}

\* JavaScript null / undefined, and the identity of the world collection.
Null == "null"
Undefined == "undefined"
World == "World"

NamePool == <<"Texas", "California", "Alaska", "Hawaii">>
Names == {NamePool[i] : i \in 1..MaxNames}

\* Names of the features the pointer is moved over.
HoverNames == {NamePool[i] : i \in 1..MaxHoverNames}

Min(a, b) == IF a < b THEN a ELSE b

\* Source paths handed to loadTopoJSON (GEO_PATHS).
PathPool == <<"/geo/world-110m.json", "/geo/world-50m.json",
              "/geo/admin-by-country/texas-admin.json",
              "/geo/admin-by-country/california-admin.json">>
Paths == {PathPool[i] : i \in 1..MaxPaths}

\* The content a source serves can differ from one fetch to the next.
Revisions == 1..MaxRevisions

VARIABLES
  \* ---- SiteMap ----
  focusLevel,       \* useState(0)
  entityStack,      \* useState<FocusedEntity[]>([])
  hoveredRegion,    \* useState<string | null>(null)
  focusedFeature,   \* useState<GeoJSON.Feature | null>(null), by feature name
  dataByLevel,      \* useState<Record<number, FC | null>>({})
  isLoading,        \* useState(false)
  isTransitioning,  \* useState(false)
  loads,            \* loader promises of the load effect still pending
  worldLoad,        \* the mount effect's loadWorldMap() promise
  timers,           \* pending setTimeout(() => setIsTransitioning(false))
  view,             \* last command issued to the renderer
  lastCall,         \* observation: the last handler invoked and its outcome
  \* ---- MapContainer ----
  focusedCountry,     \* useState<string | null>(null)
  mcHoveredRegion,    \* useState<string | null>(null)
  adminBoundaries,    \* useState<FC | null>(null), by country
  mcFitToBounds,      \* useState<bounds | null>(null), by country
  worldCountries,     \* useState<FC | null>(null)
  loading,            \* useState(false)
  mcIsTransitioning,  \* useState(false)
  pendingFocus,       \* pending setTimeout(() => setFocusedCountry(name), 50)
  mcLoads,            \* loadAdminBoundaries promises still pending
  mcWorldLoad,        \* the mount effect's loadWorldMap() promise
  mcTimers,           \* pending setTimeout(() => setIsTransitioning(false))
  \* ---- geoDataService ----
  geoCache,           \* const geoCache = new Map<string, {data, loadedAt}>()
  inFlight,           \* per path: loadTopoJSON calls waiting for their fetch
  lastLoad,           \* observation: the last cache operation and its result
  svc,                \* a loadWorldMap / loadAdminBoundaries call in progress
  \* ---- geoDataProvider ----
  backendHealthStatus,  \* let backendHealthStatus = {isHealthy, lastChecked}
  now,                  \* Date.now()
  requests,             \* provider calls in progress (a bag of calls)
  probeLog,             \* when the last two unforced /health probes were sent
  lastResponse,         \* observation: how the last provider call ended
  \* ---- pure functions on collections ----
  geo,                  \* a collection, its repair and the bounds fitted to it
  decoding,             \* a raw document and what normalizeGeoData makes of it
  zoom,                 \* two bounding boxes and the zoom levels computed for them
  slug                  \* an entity name and the file names derived from it

smVars == <<focusLevel, entityStack, hoveredRegion, focusedFeature,
            dataByLevel, isLoading, isTransitioning, loads, worldLoad,
            timers, view, lastCall>>

mcVars == <<focusedCountry, mcHoveredRegion, adminBoundaries, mcFitToBounds,
            worldCountries, loading, mcIsTransitioning, pendingFocus,
            mcLoads, mcWorldLoad, mcTimers>>

cacheVars == <<geoCache, inFlight, lastLoad>>

svcVars == <<svc>>

providerVars == <<backendHealthStatus, now, requests, probeLog, lastResponse>>

pureVars == <<geo, decoding, zoom, slug>>

vars == <<smVars, mcVars, cacheVars, svcVars, providerVars, pureVars>>

\* The state outside each component.
nonSiteMapVars == <<mcVars, cacheVars, svcVars, providerVars, pureVars>>
nonMapContainerVars == <<smVars, cacheVars, svcVars, providerVars, pureVars>>
nonCacheVars == <<smVars, mcVars, svcVars, providerVars, pureVars>>
nonServiceVars == <<smVars, mcVars, inFlight, lastLoad, providerVars, pureVars>>
nonProviderVars == <<smVars, mcVars, inFlight, lastLoad, svcVars, pureVars>>
nonGeometryVars == <<smVars, mcVars, cacheVars, svcVars, providerVars,
                     decoding, zoom, slug>>
nonDecodingVars == <<smVars, mcVars, cacheVars, svcVars, providerVars, geo,
                     zoom, slug>>
nonZoomVars == <<smVars, mcVars, cacheVars, svcVars, providerVars, geo,
                 decoding, slug>>
nonSlugVars == <<smVars, mcVars, cacheVars, svcVars, providerVars, geo,
                 decoding, zoom>>

\* ------------------------------------------------------------------------
\* Renderer commands
\* ------------------------------------------------------------------------
NoView == [kind |-> "none", what |-> "none", key |-> Null]
FlyDefault == [kind |-> "flyTo", what |-> "default", key |-> Null]
FitData(k) == [kind |-> "fitBounds", what |-> "data", key |-> k]
FitFeature(f) == [kind |-> "fitBounds", what |-> "feature", key |-> f]

\* ------------------------------------------------------------------------
\* Derived state
\* ------------------------------------------------------------------------
\* dataByLevel[level]: a key that was never set reads as undefined.
Lookup(d, level) == IF level \in DOMAIN d THEN d[level] ELSE Undefined

\* dataByLevel[level]?.features?.length
HasData(d, level) == Lookup(d, level) # Undefined /\ Lookup(d, level) # Null

RECURSIVE ScanDown(_, _)
ScanDown(d, level) ==
  IF level < 0 THEN 0
  ELSE IF HasData(d, level) THEN level
  ELSE ScanDown(d, level - 1)

\* Variant: the focus level itself, without the walk towards the ancestors.
EffectiveDataLevel_NoFallback(d, lvl) == lvl

\* useMemo: for (level = focusLevel; level >= 0; level--) ... return 0
EffectiveDataLevel(d, lvl) == ScanDown(d, lvl)

effectiveDataLevel == EffectiveDataLevel(dataByLevel, focusLevel)

\* dataByLevel[effectiveDataLevel] ?? null
currentData ==
  IF Lookup(dataByLevel, effectiveDataLevel) = Undefined THEN Null
  ELSE Lookup(dataByLevel, effectiveDataLevel)

Max(a, b) == IF a > b THEN a ELSE b

\* Variant: slice keeps every entry.
Slice_KeepAll(s, n) == s

\* entityStack.slice(0, n); a negative n counts from the end.
Slice(s, n) == SubSeq(s, 1, IF n < 0 THEN Max(Len(s) + n, 0) ELSE Min(n, Len(s)))

\* entityStack[focusLevel - 1]?.name  (0-based index in the source)
ParentEntity(stack, lvl) ==
  IF lvl >= 1 /\ lvl <= Len(stack) THEN stack[lvl].name ELSE Undefined

\* ------------------------------------------------------------------------
\* The load effect: useEffect(..., [focusLevel, entityStack]).
\* It runs after every render in which a handler replaced entityStack or
\* changed focusLevel.  s is the state the render sees; the result is the
\* state after the previous effect's cleanup and the synchronous part of the
\* new effect body.
\* ------------------------------------------------------------------------
Cleanup(ls) == {[l EXCEPT !.mounted = FALSE] : l \in ls}

\* Variant: a level without loader is entered without fitting the view to
\* the focused feature.
LoadEffect_NoFeatureFit(s) ==
  LET cleaned == [s EXCEPT !.loads = Cleanup(s.loads)] IN
  IF s.focusLevel = 0
    THEN [cleaned EXCEPT !.focusedFeature = Null]
  ELSE IF s.focusLevel \notin LEVEL_CONFIGS
    THEN [cleaned EXCEPT
            !.isLoading = FALSE,
            !.timers = s.timers + 1]
  ELSE [cleaned EXCEPT
          !.isLoading = TRUE,
          !.loads = Cleanup(s.loads) \cup
                    {[level |-> s.focusLevel,
                      parent |-> ParentEntity(s.entityStack, s.focusLevel),
                      feature |-> s.focusedFeature,
                      mounted |-> TRUE]}]

LoadEffect(s) ==
  LET cleaned == [s EXCEPT !.loads = Cleanup(s.loads)] IN
  IF s.focusLevel = 0
    THEN [cleaned EXCEPT !.focusedFeature = Null]
  ELSE IF s.focusLevel \notin LEVEL_CONFIGS
    THEN [cleaned EXCEPT
            !.view = IF s.focusedFeature # Null
                       THEN FitFeature(s.focusedFeature) ELSE s.view,
            !.isLoading = FALSE,
            !.timers = s.timers + 1]
  ELSE [cleaned EXCEPT
          !.isLoading = TRUE,
          !.loads = Cleanup(s.loads) \cup
                    {[level |-> s.focusLevel,
                      parent |-> ParentEntity(s.entityStack, s.focusLevel),
                      feature |-> s.focusedFeature,
                      mounted |-> TRUE]}]

Snapshot ==
  [focusLevel |-> focusLevel, entityStack |-> entityStack,
   focusedFeature |-> focusedFeature, isLoading |-> isLoading,
   loads |-> loads, timers |-> timers, view |-> view]

\* Commit the render + effect result r.  A handler is taken only while the
\* model has room for the callbacks it schedules.
Commit(r) ==
  /\ r.timers <= MaxTimers
  /\ focusLevel' = r.focusLevel
  /\ entityStack' = r.entityStack
  /\ focusedFeature' = r.focusedFeature
  /\ isLoading' = r.isLoading
  /\ loads' = r.loads
  /\ timers' = r.timers
  /\ view' = r.view

\* ------------------------------------------------------------------------
\* Init: the state after the first render and the mount effects.
\* ------------------------------------------------------------------------
InitSiteMap ==
  /\ focusLevel = 0
  /\ entityStack = <<>>
  /\ hoveredRegion = Null
  /\ focusedFeature = Null
  /\ dataByLevel = [l \in 0..MAX_FOCUS_LEVEL |-> Undefined]
  /\ isLoading = FALSE
  /\ isTransitioning = FALSE
  /\ loads = {}
  /\ worldLoad = "pending"
  /\ timers = 0
  /\ view = NoView
  /\ lastCall = [op |-> "mount", ok |-> TRUE, pre |-> 0]

InitMapContainer ==
  /\ focusedCountry = Null
  /\ mcHoveredRegion = Null
  /\ adminBoundaries = Null
  /\ mcFitToBounds = Null
  /\ worldCountries = Null
  /\ loading = FALSE
  /\ mcIsTransitioning = FALSE
  /\ pendingFocus = {}
  /\ mcLoads = {}
  /\ mcWorldLoad = "pending"
  /\ mcTimers = 0

\* The collection decoded from revision rev of the source at path; empty
\* marks a collection without features.
Collection(path, rev, empty) == [path |-> path, rev |-> rev, empty |-> empty]

\* Placeholder of the observation when an operation returns no collection.
NoCollection == Collection(Null, 0, TRUE)

\* new Map(): a function without keys; has, get and set of a Map.
EmptyMap == [p \in {} |-> NoCollection]
MapHas(m, k) == k \in DOMAIN m
MapSet(m, k, v) == [p \in DOMAIN m \cup {k} |-> IF p = k THEN v ELSE m[p]]

\* What the last cache operation was and what it gave its caller:
\* kind is "data", "error" (thrown), "pending" (awaiting the fetch) or "none".
Observed(op, path, hit, kind, data, evicted) ==
  [op |-> op, path |-> path, hit |-> hit, kind |-> kind, data |-> data,
   evicted |-> evicted]

InitCache ==
  /\ geoCache = EmptyMap
  /\ inFlight = [p \in Paths |-> 0]
  /\ lastLoad = Observed("none", Null, FALSE, "none", NoCollection, 0)

\* What a loader call gave its caller: kind is "data", "null" (returned
\* null), "error" (thrown, with the failure that was thrown) or "none".
Returned(kind, data, error) == [kind |-> kind, data |-> data, error |-> error]

\* A call of loadWorldMap or loadAdminBoundaries: pc is the loadTopoJSON call
\* it is awaiting ("low", "medium", "admin"), "idle" or "done"; requested
\* lists the paths it has handed to loadTopoJSON, failures what those calls
\* threw, in order.
ServiceCall(op, pc, requested, failures, result) ==
  [op |-> op, pc |-> pc, requested |-> requested, failures |-> failures,
   result |-> result]

NoServiceCall ==
  ServiceCall("none", "idle", <<>>, <<>>, Returned("none", NoCollection, Null))

InitService == svc = NoServiceCall

\* backendHealthStatus.checkIntervalMs, and the model's clock: Date.now()
\* advances in steps of TickMs from StartMs.  lastChecked starts at 0 and
\* Date.now() is far beyond one interval, so the first check always probes.
CHECK_INTERVAL_MS == 60000
TickMs == 30000
StartMs == 600000

\* A call of the provider in progress: pc is what it awaits ("health": the
\* /health probe, "api": the backend request, "local": the fallback
\* loader); at is the value of now read by checkBackendHealth; forced marks
\* forceBackendHealthCheck; api is how the backend attempt ended.
ProviderCall(pc, country, at, forced, api) ==
  [pc |-> pc, country |-> country, at |-> at, forced |-> forced, api |-> api]

\* How a provider call ended: the outcome of the backend attempt, what the
\* fallback loader returned (kind "none": not invoked), what the caller got.
Response(api, local, result) ==
  [api |-> api, local |-> local, result |-> result]

InitProvider ==
  /\ backendHealthStatus = [isHealthy |-> TRUE, lastChecked |-> 0]
  /\ now = StartMs
  /\ requests = EmptyBag
  /\ probeLog = <<>>
  /\ lastResponse = Response("none", Returned("none", NoCollection, Null),
                             Returned("none", NoCollection, Null))

\* The renderer's view before any fit request, and a fit request.
DefaultView == [kind |-> "default", bounds |-> <<>>]
FitBoundsView(b) == [kind |-> "fitBounds", bounds |-> b]

\* A feature collection fc (its features array) on its way through repair
\* and bounds fitting: stage is "input", "repaired", "repairedTwice",
\* "bounded" or "fitted"; once and twice are the results of applying
\* fixAntimeridianCrossing once and twice; bounds is what calculateFitBounds
\* returns for the repaired collection; mapView is the renderer's view;
\* mcFit is what MapContainer stores as fitToBounds (<<>> for null).
GeoState(fc) ==
  [stage |-> "input", input |-> fc, once |-> <<>>, twice |-> <<>>,
   bounds |-> <<>>, mapView |-> DefaultView, mcFit |-> <<>>]

InitGeometry == geo = GeoState(<<>>)

\* A parsed document: type is its type member ("none" for a document
\* without one, or null), objects the values of topology.objects in key
\* order, each with its geometries, features the features array.
RawDocument(type, objects, features) ==
  [type |-> type, objects |-> objects, features |-> features]

\* What normalizeGeoData gave: kind "data" with the features of the
\* returned collection, or kind "error" with the message thrown.
Decoded(kind, features, error) ==
  [kind |-> kind, features |-> features, error |-> error]

\* A document on its way through decoding: stage is "raw", "decoded" or
\* "hovered"; hovered is the name the layer reports for the pointed feature.
DecodingState(raw) ==
  [stage |-> "raw", raw |-> raw, out |-> Decoded("none", <<>>, Null),
   hovered |-> <<>>]

InitDecoding == decoding = DecodingState(RawDocument("none", <<>>, <<>>))

\* Two boxes [west, south, east, north] on their way through the zoom
\* computation: stage is "input", "zoomed" or "viewed".
ZoomState(a, b) ==
  [stage |-> "input", a |-> a, b |-> b, zoomA |-> 0, zoomB |-> 0,
   level |-> 0, viewA |-> 0, viewB |-> 0]

InitZoom == zoom = ZoomState(<<0, 0, 0, 0>>, <<0, 0, 0, 0>>)

\* An entity name (a sequence of characters) and the file names the
\* runtime loader and the splitter script derive from it; stage is "input",
\* "requested" or "written".
SlugState(name) ==
  [stage |-> "input", name |-> name, path |-> <<>>, written |-> <<>>]

InitSlug == slug = SlugState(<<>>)

InitOutsideGeometry ==
  /\ InitSiteMap /\ InitMapContainer /\ InitCache /\ InitService
  /\ InitProvider /\ InitDecoding /\ InitZoom /\ InitSlug

Init == InitOutsideGeometry /\ InitGeometry

\* A settling load is taken only while the model has room for its callback.
Room(n) == timers + n <= MaxTimers

\* ------------------------------------------------------------------------
\* Mount effect: loadWorldMap() resolves.  A rejected loadWorldMap() is only
\* logged: the component stays in the state it has while the promise is
\* pending, so that outcome is the behaviour in which WorldLoaded never occurs.
\* ------------------------------------------------------------------------
WorldLoaded ==
  /\ worldLoad = "pending"
  /\ worldLoad' = "done"
  /\ dataByLevel' = [dataByLevel EXCEPT ![0] = World]
  /\ UNCHANGED <<focusLevel, entityStack, hoveredRegion, focusedFeature,
                 isLoading, isTransitioning, loads, timers, view, lastCall>>
  /\ UNCHANGED nonSiteMapVars

\* ------------------------------------------------------------------------
\* focus(entityName, level?) of the imperative handle.
\* hasLevel = FALSE models an omitted (undefined) level argument.
\* ------------------------------------------------------------------------
FocusTarget(hasLevel, level) == IF hasLevel THEN level ELSE focusLevel + 1

\* Variant: the guard forgets that a load is in progress.
FocusRejected_NoLoadingCheck(hasLevel, level) ==
  \/ isTransitioning
  \/ FocusTarget(hasLevel, level) > MAX_FOCUS_LEVEL
  \/ FocusTarget(hasLevel, level) < 1

\* Variant: the guard forgets the upper limit of the target level.
FocusRejected_NoUpperBound(hasLevel, level) ==
  \/ isTransitioning \/ isLoading
  \/ FocusTarget(hasLevel, level) < 1

FocusRejected(hasLevel, level) ==
  \/ isTransitioning \/ isLoading
  \/ FocusTarget(hasLevel, level) > MAX_FOCUS_LEVEL
  \/ FocusTarget(hasLevel, level) < 1

focus(entityName, hasLevel, level) ==
  LET targetLevel == FocusTarget(hasLevel, level) IN
  /\ IF FocusRejected(hasLevel, level)
    THEN /\ lastCall' = [op |-> "focus", ok |-> FALSE, pre |-> focusLevel]
         /\ UNCHANGED <<focusLevel, entityStack, hoveredRegion,
                        focusedFeature, dataByLevel, isLoading,
                        isTransitioning, loads, worldLoad, timers, view>>
    ELSE /\ lastCall' = [op |-> "focus", ok |-> TRUE, pre |-> focusLevel]
         /\ isTransitioning' = TRUE
         /\ Commit(LoadEffect(
              [Snapshot EXCEPT
                 !.entityStack = Append(Slice(entityStack, targetLevel - 1),
                                   [name |-> entityName, level |-> targetLevel]),
                 !.focusLevel = targetLevel]))
         /\ UNCHANGED <<hoveredRegion, dataByLevel, worldLoad>>
  /\ UNCHANGED nonSiteMapVars

\* ------------------------------------------------------------------------
\* goBack() of the imperative handle.
\* ------------------------------------------------------------------------
RECURSIVE FitNearest(_, _, _)
\* for (level = newLevel; level >= 0; level--) if (dataByLevel[level]) fit
FitNearest(d, level, v) ==
  IF level < 0 THEN v
  ELSE IF HasData(d, level) THEN FitData(Lookup(d, level))
  ELSE FitNearest(d, level - 1, v)

\* Variant: goBack forgets setFocusedFeature(null).
goBack_KeepsFeature ==
  /\ IF focusLevel <= 0
    THEN /\ lastCall' = [op |-> "goBack", ok |-> FALSE, pre |-> focusLevel]
         /\ UNCHANGED <<focusLevel, entityStack, hoveredRegion,
                        focusedFeature, dataByLevel, isLoading,
                        isTransitioning, loads, worldLoad, timers, view>>
    ELSE LET newLevel == focusLevel - 1 IN
         /\ isTransitioning' = TRUE
         /\ hoveredRegion' = Null
         /\ Commit(LoadEffect(
              [Snapshot EXCEPT
                 !.entityStack = Slice(entityStack, newLevel),
                 !.focusLevel = newLevel,
                 !.view = IF newLevel = 0 THEN FlyDefault
                          ELSE FitNearest(dataByLevel, newLevel, view),
                 !.timers = timers + 1]))
         /\ lastCall' = [op |-> "goBack", ok |-> TRUE, pre |-> focusLevel]
         /\ UNCHANGED <<dataByLevel, worldLoad>>
  /\ UNCHANGED nonSiteMapVars

goBack ==
  /\ IF focusLevel <= 0
    THEN /\ lastCall' = [op |-> "goBack", ok |-> FALSE, pre |-> focusLevel]
         /\ UNCHANGED <<focusLevel, entityStack, hoveredRegion,
                        focusedFeature, dataByLevel, isLoading,
                        isTransitioning, loads, worldLoad, timers, view>>
    ELSE LET newLevel == focusLevel - 1 IN
         /\ isTransitioning' = TRUE
         /\ hoveredRegion' = Null
         /\ Commit(LoadEffect(
              [Snapshot EXCEPT
                 !.entityStack = Slice(entityStack, newLevel),
                 !.focusLevel = newLevel,
                 !.focusedFeature = Null,
                 !.view = IF newLevel = 0 THEN FlyDefault
                          ELSE FitNearest(dataByLevel, newLevel, view),
                 !.timers = timers + 1]))
         /\ lastCall' = [op |-> "goBack", ok |-> TRUE, pre |-> focusLevel]
         /\ UNCHANGED <<dataByLevel, worldLoad>>
  /\ UNCHANGED nonSiteMapVars

\* ------------------------------------------------------------------------
\* exitFocus() of the imperative handle.
\* ------------------------------------------------------------------------
\* Variant: exitFocus forgets setHoveredRegion(null).
exitFocus_KeepsHover ==
  /\ isTransitioning' = TRUE
  /\ Commit(LoadEffect(
       [Snapshot EXCEPT
          !.entityStack = <<>>,
          !.focusLevel = 0,
          !.focusedFeature = Null,
          !.view = FlyDefault,
          !.timers = timers + 1]))
  /\ lastCall' = [op |-> "exitFocus", ok |-> TRUE, pre |-> focusLevel]
  /\ UNCHANGED <<hoveredRegion, dataByLevel, worldLoad>>
  /\ UNCHANGED nonSiteMapVars

exitFocus ==
  /\ isTransitioning' = TRUE
  /\ hoveredRegion' = Null
  /\ Commit(LoadEffect(
       [Snapshot EXCEPT
          !.entityStack = <<>>,
          !.focusLevel = 0,
          !.focusedFeature = Null,
          !.view = FlyDefault,
          !.timers = timers + 1]))
  /\ lastCall' = [op |-> "exitFocus", ok |-> TRUE, pre |-> focusLevel]
  /\ UNCHANGED <<dataByLevel, worldLoad>>
  /\ UNCHANGED nonSiteMapVars

\* ------------------------------------------------------------------------
\* handleClick: a click that hits the feature called name of the rendered
\* layer (event.features is empty unless a collection is rendered).
\* ------------------------------------------------------------------------
\* Variant: a click made while an ancestor's data is rendered replaces the
\* top entry instead of pushing.
ClickStack_ReplaceTop(name) ==
  IF effectiveDataLevel < focusLevel
    THEN Append(Slice(entityStack, Len(entityStack) - 1),
                [name |-> name, level |-> focusLevel + 1])
    ELSE Append(entityStack, [name |-> name, level |-> focusLevel + 1])

\* newStack = [...entityStack]; newStack.push({ name, level: nextLevel })
ClickStack(name) ==
  Append(entityStack, [name |-> name, level |-> focusLevel + 1])

handleClick(name) ==
  /\ IF isTransitioning \/ isLoading
       THEN /\ lastCall' = [op |-> "click", ok |-> FALSE, pre |-> focusLevel]
            /\ UNCHANGED <<focusLevel, entityStack, hoveredRegion,
                           focusedFeature, dataByLevel, isLoading,
                           isTransitioning, loads, worldLoad, timers, view>>
     ELSE IF focusLevel + 1 <= MAX_FOCUS_LEVEL
       THEN /\ lastCall' = [op |-> "click", ok |-> TRUE, pre |-> focusLevel]
            /\ isTransitioning' = TRUE
            /\ Commit(LoadEffect(
                 [Snapshot EXCEPT
                    !.focusedFeature = name,
                    !.entityStack = ClickStack(name),
                    !.focusLevel = focusLevel + 1]))
            /\ UNCHANGED <<hoveredRegion, dataByLevel, worldLoad>>
     ELSE /\ lastCall' = [op |-> "click", ok |-> FALSE, pre |-> focusLevel]
          /\ UNCHANGED <<focusLevel, entityStack, hoveredRegion,
                         focusedFeature, dataByLevel, isLoading,
                         isTransitioning, loads, worldLoad, timers, view>>
  /\ currentData # Null
  /\ UNCHANGED nonSiteMapVars

\* ------------------------------------------------------------------------
\* Hover handlers.
\* ------------------------------------------------------------------------
\* Variant: hovering also stores the feature, as a click does.
handleMouseMove_StoresFeature(name) ==
  /\ currentData # Null
  /\ hoveredRegion' = name
  /\ focusedFeature' = name
  /\ UNCHANGED <<focusLevel, entityStack, dataByLevel, isLoading,
                 isTransitioning, loads, worldLoad, timers, view, lastCall>>
  /\ UNCHANGED nonSiteMapVars

\* Pointer over the feature called name of the rendered layer.
handleMouseMove(name) ==
  /\ hoveredRegion' = name
  /\ UNCHANGED <<lastCall, focusLevel, entityStack, focusedFeature,
                 dataByLevel, isLoading, isTransitioning, loads, worldLoad,
                 timers, view>>
  /\ currentData # Null
  /\ UNCHANGED nonSiteMapVars

\* Pointer over no feature, or pointer leaving the map.
handleMouseLeave ==
  /\ hoveredRegion' = Null
  /\ UNCHANGED <<lastCall, focusLevel, entityStack, focusedFeature,
                 dataByLevel, isLoading, isTransitioning, loads, worldLoad,
                 timers, view>>
  /\ UNCHANGED nonSiteMapVars

\* ------------------------------------------------------------------------
\* The loader promise of a load effect settles.
\*   "data"  : a non-empty collection
\*   "empty" : null (what loadAdminBoundaries returns for a missing file and
\*             for every transport or decode error) or no features
\*   "fail"  : the loader rejects, or fitToBounds throws inside the try
\* ------------------------------------------------------------------------
Outcomes(l) == IF l.parent = Undefined THEN {"empty"}
               ELSE {"data", "empty", "fail"}

\* Variant: the catch branch releases the flags but keeps the level's data.
LoadSettled_FailKeepsData(l, outcome) ==
  /\ l \in loads
  /\ outcome \in Outcomes(l)
  /\ loads' = loads \ {l}
  /\ IF ~l.mounted
       THEN UNCHANGED <<dataByLevel, view, isLoading, isTransitioning, timers>>
     ELSE IF outcome = "empty"
       THEN /\ Room(1)
            /\ dataByLevel' = [dataByLevel EXCEPT ![l.level] = Null]
            /\ view' = IF l.feature # Null THEN FitFeature(l.feature) ELSE view
            /\ isLoading' = FALSE
            /\ timers' = timers + 1
            /\ UNCHANGED isTransitioning
     ELSE IF outcome = "data"
       THEN /\ Room(1)
            /\ view' = FitData(l.parent)
            /\ dataByLevel' = [dataByLevel EXCEPT ![l.level] = l.parent]
            /\ isLoading' = FALSE
            /\ timers' = timers + 1
            /\ UNCHANGED isTransitioning
     ELSE /\ isLoading' = FALSE
          /\ isTransitioning' = FALSE
          /\ UNCHANGED <<dataByLevel, view, timers>>
  /\ UNCHANGED <<focusLevel, entityStack, hoveredRegion, focusedFeature,
                 worldLoad, lastCall>>
  /\ UNCHANGED nonSiteMapVars

LoadSettled(l, outcome) ==
  /\ l \in loads
  /\ outcome \in Outcomes(l)
  /\ loads' = loads \ {l}
  /\ IF ~l.mounted
       THEN UNCHANGED <<dataByLevel, view, isLoading, isTransitioning, timers>>
     ELSE IF outcome = "empty"
       THEN /\ Room(1)
            /\ dataByLevel' = [dataByLevel EXCEPT ![l.level] = Null]
            /\ view' = IF l.feature # Null THEN FitFeature(l.feature) ELSE view
            /\ isLoading' = FALSE
            /\ timers' = timers + 1
            /\ UNCHANGED isTransitioning
     ELSE IF outcome = "data"
       THEN /\ Room(1)
            /\ view' = FitData(l.parent)
            /\ dataByLevel' = [dataByLevel EXCEPT ![l.level] = l.parent]
            /\ isLoading' = FALSE
            /\ timers' = timers + 1
            /\ UNCHANGED isTransitioning
     ELSE /\ dataByLevel' = [dataByLevel EXCEPT ![l.level] = Null]
          /\ isLoading' = FALSE
          /\ isTransitioning' = FALSE
          /\ UNCHANGED <<view, timers>>
  /\ UNCHANGED <<focusLevel, entityStack, hoveredRegion, focusedFeature,
                 worldLoad, lastCall>>
  /\ UNCHANGED nonSiteMapVars

\* A pending setTimeout(() => setIsTransitioning(false), ...) fires.
TimerFired ==
  /\ timers > 0
  /\ timers' = timers - 1
  /\ isTransitioning' = FALSE
  /\ UNCHANGED <<focusLevel, entityStack, hoveredRegion, focusedFeature,
                 dataByLevel, isLoading, loads, worldLoad, view, lastCall>>
  /\ UNCHANGED nonSiteMapVars

\* ------------------------------------------------------------------------
\* Specification of SiteMap
\* ------------------------------------------------------------------------
\* Explicit level arguments of focus(): one below the accepted range, one
\* inside it that can skip a level or truncate the stack, one above it.
LevelArgs == {0, 2, MAX_FOCUS_LEVEL + 1}

\* <<TRUE, level>>: focus(name, level); <<FALSE, 0>>: focus(name).
FocusArgs == {<<TRUE, lv>> : lv \in LevelArgs} \cup {<<FALSE, 0>>}

Next ==
  \/ WorldLoaded
  \/ \E n \in Names : \E a \in FocusArgs : focus(n, a[1], a[2])
  \/ goBack
  \/ exitFocus
  \/ \E n \in Names : handleClick(n)
  \/ \E n \in HoverNames : handleMouseMove(n)
  \/ handleMouseLeave
  \/ \E l \in loads : \E o \in {"data", "empty", "fail"} : LoadSettled(l, o)
  \/ TimerFired

Spec == Init /\ [][Next]_vars

\* ========================================================================
\* MapContainer (src/components/map/MapContainer.tsx)
\* ========================================================================

McWorldLoaded ==
  /\ UNCHANGED nonMapContainerVars
  /\ mcWorldLoad = "pending"
  /\ mcWorldLoad' = "done"
  /\ worldCountries' = World
  /\ UNCHANGED <<focusedCountry, mcHoveredRegion, adminBoundaries,
                 mcFitToBounds, loading, mcIsTransitioning, pendingFocus,
                 mcLoads, mcTimers>>

McWorldFailed ==
  /\ UNCHANGED nonMapContainerVars
  /\ mcWorldLoad = "pending"
  /\ mcWorldLoad' = "failed"
  /\ UNCHANGED <<focusedCountry, mcHoveredRegion, adminBoundaries,
                 mcFitToBounds, worldCountries, loading, mcIsTransitioning,
                 pendingFocus, mcLoads, mcTimers>>

\* handleCountryClick: BaseMap delivers a country click only while the world
\* layer is shown (no focused country, world collection loaded).
handleCountryClick(countryName) ==
  /\ UNCHANGED nonMapContainerVars
  /\ worldCountries # Null /\ focusedCountry = Null
  /\ IF focusedCountry # Null \/ loading \/ mcIsTransitioning
       THEN UNCHANGED mcVars
       ELSE /\ mcIsTransitioning' = TRUE
            /\ pendingFocus' = pendingFocus \cup {countryName}
            /\ UNCHANGED <<focusedCountry, mcHoveredRegion, adminBoundaries,
                           mcFitToBounds, worldCountries, loading, mcLoads,
                           mcWorldLoad, mcTimers>>

\* The 50 ms timer of handleCountryClick fires: setFocusedCountry(name), and
\* the effect on [focusedCountry] starts loadCountryData when it changed.
FocusTimerFired(countryName) ==
  /\ UNCHANGED nonMapContainerVars
  /\ countryName \in pendingFocus
  /\ pendingFocus' = pendingFocus \ {countryName}
  /\ focusedCountry' = countryName
  /\ IF countryName # focusedCountry
       THEN /\ loading' = TRUE
            /\ mcLoads' = mcLoads \cup {[country |-> countryName]}
       ELSE UNCHANGED <<loading, mcLoads>>
  /\ UNCHANGED <<mcHoveredRegion, adminBoundaries, mcFitToBounds,
                 worldCountries, mcIsTransitioning, mcWorldLoad, mcTimers>>

\* loadCountryData resumes after await loadAdminBoundaries(countryToLoad).
\*   "data"    : boundaries with finite bounds
\*   "empty"   : null or no features
\*   "invalid" : non-finite bounds
\*   "fail"    : the try block throws
McOutcomes == {"data", "empty", "invalid", "fail"}

loadCountryData(l, outcome) ==
  /\ UNCHANGED nonMapContainerVars
  /\ l \in mcLoads
  /\ mcLoads' = mcLoads \ {l}
  /\ loading' = FALSE
  /\ IF outcome = "data"
       THEN /\ mcTimers < MaxTimers
            /\ adminBoundaries' = l.country
            /\ mcFitToBounds' = l.country
            /\ mcTimers' = mcTimers + 1
            /\ UNCHANGED mcIsTransitioning
     ELSE IF outcome = "fail"
       THEN /\ adminBoundaries' = Null
            /\ mcFitToBounds' = Null
            /\ mcIsTransitioning' = FALSE
            /\ UNCHANGED mcTimers
     ELSE /\ adminBoundaries' = Null
          /\ mcFitToBounds' = Null
          /\ UNCHANGED <<mcIsTransitioning, mcTimers>>
  /\ UNCHANGED <<focusedCountry, mcHoveredRegion, worldCountries,
                 pendingFocus, mcWorldLoad>>

\* exitFocusMode: the Exit button of MapInfoBar, rendered while a country is
\* focused.
exitFocusMode ==
  /\ UNCHANGED nonMapContainerVars
  /\ focusedCountry # Null
  /\ mcTimers < MaxTimers
  /\ mcIsTransitioning' = TRUE
  /\ focusedCountry' = Null
  /\ mcHoveredRegion' = Null
  /\ adminBoundaries' = Null
  /\ mcFitToBounds' = Null
  /\ loading' = FALSE
  /\ mcTimers' = mcTimers + 1
  /\ UNCHANGED <<worldCountries, pendingFocus, mcLoads, mcWorldLoad>>

handleCountryHover(regionName) ==
  /\ UNCHANGED nonMapContainerVars
  /\ worldCountries # Null
  /\ mcHoveredRegion' = regionName
  /\ UNCHANGED <<focusedCountry, adminBoundaries, mcFitToBounds,
                 worldCountries, loading, mcIsTransitioning, pendingFocus,
                 mcLoads, mcWorldLoad, mcTimers>>

McTimerFired ==
  /\ UNCHANGED nonMapContainerVars
  /\ mcTimers > 0
  /\ mcTimers' = mcTimers - 1
  /\ mcIsTransitioning' = FALSE
  /\ UNCHANGED <<focusedCountry, mcHoveredRegion, adminBoundaries,
                 mcFitToBounds, worldCountries, loading, pendingFocus,
                 mcLoads, mcWorldLoad>>

NextMC ==
  \/ McWorldLoaded
  \/ McWorldFailed
  \/ \E n \in Names : handleCountryClick(n)
  \/ \E n \in Names : FocusTimerFired(n)
  \/ \E l \in mcLoads : \E o \in McOutcomes : loadCountryData(l, o)
  \/ exitFocusMode
  \/ \E n \in Names \cup {Null} : handleCountryHover(n)
  \/ McTimerFired

SpecMC == Init /\ [][NextMC]_vars

\* ========================================================================
\* The collection cache (src/lib/geoDataService.ts)
\* ========================================================================

\* How the fetch of a loadTopoJSON call ends.
\*   "ok"             : a Topology with objects or a FeatureCollection
\*   "zeroGeometries" : a Topology whose first object has no geometries
\*   "http"           : !response.ok
\*   "parse"          : response.json() rejects
\*   "unsupported"    : neither a Topology nor a FeatureCollection
\*   "noObjects"      : a Topology without objects
SuccessOutcomes == {"ok", "zeroGeometries"}
FailureOutcomes == {"http", "parse", "unsupported", "noObjects"}
FetchOutcomes == SuccessOutcomes \cup FailureOutcomes

RECURSIVE SumInFlight(_)
SumInFlight(ps) ==
  IF ps = {} THEN 0
  ELSE LET p == CHOOSE q \in ps : TRUE IN inFlight[p] + SumInFlight(ps \ {p})

\* Variant: loadTopoJSON without the cache check.
loadTopoJSON_NoCacheCheck(path) ==
  /\ UNCHANGED nonCacheVars
  /\ SumInFlight(Paths) < MaxInFlight
  /\ inFlight' = [inFlight EXCEPT ![path] = @ + 1]
  /\ lastLoad' = Observed("load", path, FALSE, "pending", NoCollection, 0)
  /\ UNCHANGED geoCache

\* loadTopoJSON(path) up to its first await: the cache check, and on a miss
\* the fetch request.  A miss is taken only while the model has room for
\* another pending fetch.
loadTopoJSON(path) ==
  /\ UNCHANGED nonCacheVars
  /\ IF MapHas(geoCache, path)
       THEN /\ lastLoad' = Observed("load", path, TRUE, "data",
                                    geoCache[path], 0)
            /\ UNCHANGED <<geoCache, inFlight>>
       ELSE /\ SumInFlight(Paths) < MaxInFlight
            /\ inFlight' = [inFlight EXCEPT ![path] = @ + 1]
            /\ lastLoad' = Observed("load", path, FALSE, "pending",
                                    NoCollection, 0)
            /\ UNCHANGED geoCache

\* Variant: the result is stored before the response is checked, so a
\* failed load leaves an entry.
FetchSettled_CachesFailure(path, outcome, rev) ==
  /\ UNCHANGED nonCacheVars
  /\ inFlight[path] > 0
  /\ inFlight' = [inFlight EXCEPT ![path] = @ - 1]
  /\ LET data == Collection(path, rev, outcome # "ok") IN
     /\ geoCache' = MapSet(geoCache, path, data)
     /\ lastLoad' = IF outcome \in SuccessOutcomes
                      THEN Observed("settle", path, FALSE, "data", data, 0)
                      ELSE Observed("settle", path, FALSE, "error",
                                    NoCollection, 0)

\* loadTopoJSON(path) after its awaits: the response is checked and decoded;
\* a decoded collection is stored and returned, every failure is thrown.
FetchSettled(path, outcome, rev) ==
  /\ UNCHANGED nonCacheVars
  /\ inFlight[path] > 0
  /\ inFlight' = [inFlight EXCEPT ![path] = @ - 1]
  /\ IF outcome \in SuccessOutcomes
       THEN LET data == Collection(path, rev, outcome = "zeroGeometries") IN
            /\ geoCache' = MapSet(geoCache, path, data)
            /\ lastLoad' = Observed("settle", path, FALSE, "data", data, 0)
       ELSE /\ UNCHANGED geoCache
            /\ lastLoad' = Observed("settle", path, FALSE, "error",
                                    NoCollection, 0)

\* Variant: clearCache drops the entries of the per-entity sources only.
clearCache_KeepsWorld ==
  /\ UNCHANGED nonCacheVars
  /\ geoCache' = [p \in DOMAIN geoCache \cap {PathPool[1]} |-> geoCache[p]]
  /\ lastLoad' = Observed("clear", Null, FALSE, "none", NoCollection,
                          Cardinality(DOMAIN geoCache))
  /\ UNCHANGED inFlight

\* clearCache(): geoCache.clear().  The observation records how many entries
\* the cache held.
clearCache ==
  /\ UNCHANGED nonCacheVars
  /\ geoCache' = EmptyMap
  /\ lastLoad' = Observed("clear", Null, FALSE, "none", NoCollection,
                          Cardinality(DOMAIN geoCache))
  /\ UNCHANGED inFlight

NextCache ==
  \/ \E p \in Paths : loadTopoJSON(p)
  \/ \E p \in Paths : \E o \in FetchOutcomes : \E r \in Revisions :
       FetchSettled(p, o, r)
  \/ clearCache

SpecCache == Init /\ [][NextCache]_vars

\* ========================================================================
\* The loaders built on loadTopoJSON (src/lib/geoDataService.ts)
\* ========================================================================

\* GEO_PATHS
worldLow == PathPool[1]
worldMedium == PathPool[2]

\* toLowerCase() of the country names of the model.
ToLowerCase ==
  [n \in {NamePool[i] : i \in 1..Len(NamePool)} |->
     CASE n = "Texas" -> "texas"
       [] n = "California" -> "california"
       [] n = "Alaska" -> "alaska"
       [] n = "Hawaii" -> "hawaii"]

\* GEO_PATHS.adminByCountry: the names of the model are single words of
\* letters, so the two replace() calls leave the lower-cased name as it is.
adminByCountry(countryName) ==
  "/geo/admin-by-country/" \o ToLowerCase[countryName] \o "-admin.json"

\* How the fetch of a loader's loadTopoJSON call ends: the outcomes of
\* FetchOutcomes, where "http" is a non-ok status other than 404, and
\*   "missing" : status 404, the file does not exist
\*   "network" : fetch() rejects
SourceOutcomes == FetchOutcomes \cup {"missing", "network"}
SourceFailures == SourceOutcomes \ SuccessOutcomes

\* loadWorldMap() up to its first await: loadTopoJSON(GEO_PATHS.worldLow).
loadWorldMap ==
  /\ UNCHANGED nonServiceVars
  /\ svc.pc = "idle"
  /\ svc' = IF MapHas(geoCache, worldLow)
              THEN ServiceCall("world", "done", <<worldLow>>, <<>>,
                               Returned("data", geoCache[worldLow], Null))
              ELSE ServiceCall("world", "low", <<worldLow>>, <<>>,
                               svc.result)
  /\ UNCHANGED geoCache

\* loadAdminBoundaries(countryName) up to its first await.
loadAdminBoundaries(countryName) ==
  /\ UNCHANGED nonServiceVars
  /\ svc.pc = "idle"
  /\ LET path == adminByCountry(countryName) IN
     svc' = IF MapHas(geoCache, path)
              THEN ServiceCall("admin", "done", <<path>>, <<>>,
                               Returned("data", geoCache[path], Null))
              ELSE ServiceCall("admin", "admin", <<path>>, <<>>, svc.result)
  /\ UNCHANGED geoCache

\* Variant: the error of the medium-resolution load is swallowed.
ServiceFetchSettled_SwallowsFinal(outcome, rev) ==
  /\ UNCHANGED nonServiceVars
  /\ svc.pc \in {"low", "medium", "admin"}
  /\ LET path == svc.requested[Len(svc.requested)] IN
     IF outcome \in SuccessOutcomes
       THEN LET data == Collection(path, rev, outcome = "zeroGeometries") IN
            /\ geoCache' = MapSet(geoCache, path, data)
            /\ svc' = [svc EXCEPT !.pc = "done",
                                  !.result = Returned("data", data, Null)]
       ELSE /\ UNCHANGED geoCache
            /\ svc' =
                 IF svc.pc = "low" /\ MapHas(geoCache, worldMedium)
                   THEN [svc EXCEPT
                           !.pc = "done",
                           !.requested = Append(@, worldMedium),
                           !.failures = Append(@, outcome),
                           !.result = Returned("data", geoCache[worldMedium],
                                               Null)]
                 ELSE IF svc.pc = "low"
                   THEN [svc EXCEPT !.pc = "medium",
                                    !.requested = Append(@, worldMedium),
                                    !.failures = Append(@, outcome)]
                 ELSE [svc EXCEPT
                         !.pc = "done",
                         !.failures = Append(@, outcome),
                         !.result = Returned("null", NoCollection, Null)]

\* The awaited loadTopoJSON call of the loader settles.  A decoded
\* collection is cached and returned.  A failure of the low-resolution load
\* is caught by loadWorldMap, which returns loadTopoJSON(worldMedium); a
\* failure of that call is thrown to the caller; loadAdminBoundaries catches
\* every failure and returns null.
ServiceFetchSettled(outcome, rev) ==
  /\ UNCHANGED nonServiceVars
  /\ svc.pc \in {"low", "medium", "admin"}
  /\ LET path == svc.requested[Len(svc.requested)] IN
     IF outcome \in SuccessOutcomes
       THEN LET data == Collection(path, rev, outcome = "zeroGeometries") IN
            /\ geoCache' = MapSet(geoCache, path, data)
            /\ svc' = [svc EXCEPT !.pc = "done",
                                  !.result = Returned("data", data, Null)]
       ELSE /\ UNCHANGED geoCache
            /\ svc' =
                 IF svc.pc = "low" /\ MapHas(geoCache, worldMedium)
                   THEN [svc EXCEPT
                           !.pc = "done",
                           !.requested = Append(@, worldMedium),
                           !.failures = Append(@, outcome),
                           !.result = Returned("data", geoCache[worldMedium],
                                               Null)]
                 ELSE IF svc.pc = "low"
                   THEN [svc EXCEPT !.pc = "medium",
                                    !.requested = Append(@, worldMedium),
                                    !.failures = Append(@, outcome)]
                 ELSE IF svc.pc = "medium"
                   THEN [svc EXCEPT
                           !.pc = "done",
                           !.failures = Append(@, outcome),
                           !.result = Returned("error", NoCollection,
                                               outcome)]
                 ELSE [svc EXCEPT
                         !.pc = "done",
                         !.failures = Append(@, outcome),
                         !.result = Returned("null", NoCollection, Null)]

\* The caller has its result; the next call can start.
ServiceReturned ==
  /\ UNCHANGED nonServiceVars
  /\ svc.pc = "done"
  /\ svc' = NoServiceCall
  /\ UNCHANGED geoCache

\* geoCache.clear() between two loader calls.
ServiceClearCache ==
  /\ svc.pc = "idle"
  /\ clearCache

NextService ==
  \/ loadWorldMap
  \/ \E n \in Names : loadAdminBoundaries(n)
  \/ \E o \in SourceOutcomes : \E r \in Revisions : ServiceFetchSettled(o, r)
  \/ ServiceReturned
  \/ ServiceClearCache

SpecService == Init /\ [][NextService]_vars

\* ========================================================================
\* The backend-first provider (src/lib/geoDataProvider.ts)
\* ========================================================================

\* Countries the provider is asked for.
ProviderCountries == {NamePool[1]}

\* The sources serve one revision of their content in this part of the
\* model.
ProviderRevision == 1

\* The collection the backend serves for a country.
BackendPath(countryName) == "/api/geo/admin/" \o ToLowerCase[countryName]

\* now - lastChecked < checkIntervalMs: the recorded result is reused.
HealthIsFresh ==
  now - backendHealthStatus.lastChecked < CHECK_INTERVAL_MS

\* The calls in progress with call c added, and with call c removed.
Started(c) == requests (+) SetToBag({c})
Finished(c) == requests (-) SetToBag({c})

\* The log keeps the times of the last two unforced probes.
LogProbe(t) ==
  IF Len(probeLog) < 2 THEN Append(probeLog, t) ELSE <<probeLog[2], t>>

\* Date.now() advances.
Tick ==
  /\ UNCHANGED nonProviderVars
  /\ now < StartMs + MaxTicks * TickMs
  /\ now' = now + TickMs
  /\ UNCHANGED <<backendHealthStatus, requests, probeLog, lastResponse,
                 geoCache>>

\* The fallback part of fetchWithFallback for a call for countryName whose
\* backend attempt ended as api; others are the other calls in progress.
\* The fallback loader calls loadTopoJSON, which answers from geoCache or
\* fetches.
StartFallback(others, countryName, api) ==
  LET path == adminByCountry(countryName) IN
  IF MapHas(geoCache, path)
    THEN /\ requests' = others
         /\ lastResponse' =
              Response(api, Returned("data", geoCache[path], Null),
                       Returned("data", geoCache[path], Null))
         /\ UNCHANGED geoCache
    ELSE /\ requests' =
              others (+) SetToBag({ProviderCall("local", countryName, 0,
                                                FALSE, api)})
         /\ UNCHANGED <<lastResponse, geoCache>>

\* The backend request of a call for countryName is sent.
SendApiRequest(others, countryName) ==
  /\ requests' =
       others (+) SetToBag({ProviderCall("api", countryName, 0, FALSE,
                                         "none")})
  /\ UNCHANGED <<lastResponse, geoCache>>

\* loadAdminBoundaries(countryName) of the provider up to its first pending
\* request: fetchWithFallback calls checkBackendHealth, which answers from
\* backendHealthStatus while that is fresh and sends a /health probe
\* otherwise.
providerLoadAdminBoundaries(countryName) ==
  /\ UNCHANGED nonProviderVars
  /\ BagCardinality(requests) < MaxRequests
  /\ UNCHANGED <<backendHealthStatus, now>>
  /\ IF HealthIsFresh
       THEN /\ UNCHANGED probeLog
            /\ IF backendHealthStatus.isHealthy
                 THEN SendApiRequest(requests, countryName)
                 ELSE StartFallback(requests, countryName, "unhealthy")
       ELSE /\ probeLog' = LogProbe(now)
            /\ requests' = Started(ProviderCall("health", countryName, now,
                                                 FALSE, "none"))
            /\ UNCHANGED <<lastResponse, geoCache>>

\* forceBackendHealthCheck(): lastChecked = 0, then checkBackendHealth(),
\* which therefore probes.
forceBackendHealthCheck ==
  /\ UNCHANGED nonProviderVars
  /\ BagCardinality(requests) < MaxRequests
  /\ backendHealthStatus' = [backendHealthStatus EXCEPT !.lastChecked = 0]
  /\ requests' = Started(ProviderCall("health", Null, now, TRUE, "none"))
  /\ UNCHANGED <<now, probeLog, lastResponse, geoCache>>

\* How a request to the backend ends: "ok" (response.ok), "status" (another
\* status), "thrown" (fetch rejects or is aborted after BACKEND_TIMEOUT),
\* and for the data request "badBody" (response.ok, but response.json() or
\* normalizeGeoData throws).
ProbeOutcomes == {"ok", "status", "thrown"}
ApiOutcomes == {"ok", "status", "thrown", "badBody"}

\* The /health probe of call c settles: the result is recorded with the
\* time read when the check began, and fetchWithFallback goes on.
HealthSettled(c, outcome) ==
  /\ UNCHANGED nonProviderVars
  /\ BagIn(c, requests)
  /\ c.pc = "health"
  /\ backendHealthStatus' = [isHealthy |-> outcome = "ok",
                             lastChecked |-> c.at]
  /\ UNCHANGED <<now, probeLog>>
  /\ IF c.forced
       THEN /\ requests' = Finished(c)
            /\ UNCHANGED <<lastResponse, geoCache>>
       ELSE IF outcome = "ok"
         THEN SendApiRequest(Finished(c), c.country)
         ELSE StartFallback(Finished(c), c.country, "unhealthy")

\* Variant: a non-ok status of the backend is returned as null, without the
\* fallback loader.
ApiSettled_NoFallbackOnStatus(c, outcome) ==
  /\ UNCHANGED nonProviderVars
  /\ BagIn(c, requests)
  /\ c.pc = "api"
  /\ UNCHANGED <<now, probeLog>>
  /\ IF outcome = "ok"
       THEN LET data == Collection(BackendPath(c.country), ProviderRevision,
                                   FALSE) IN
            /\ requests' = Finished(c)
            /\ lastResponse' =
                 Response("ok", Returned("none", NoCollection, Null),
                          Returned("data", data, Null))
            /\ UNCHANGED <<backendHealthStatus, geoCache>>
       ELSE IF outcome = "status"
         THEN /\ requests' = Finished(c)
              /\ lastResponse' =
                   Response("status", Returned("none", NoCollection, Null),
                            Returned("null", NoCollection, Null))
              /\ UNCHANGED <<backendHealthStatus, geoCache>>
         ELSE /\ backendHealthStatus' = [isHealthy |-> FALSE,
                                         lastChecked |-> now]
              /\ StartFallback(Finished(c), c.country, outcome)

\* The backend request of call c settles.  A decoded body is returned; a
\* non-ok status falls through to the fallback; anything thrown inside the
\* try marks the backend unhealthy and falls through to the fallback.
ApiSettled(c, outcome) ==
  /\ UNCHANGED nonProviderVars
  /\ BagIn(c, requests)
  /\ c.pc = "api"
  /\ UNCHANGED <<now, probeLog>>
  /\ IF outcome = "ok"
       THEN LET data == Collection(BackendPath(c.country), ProviderRevision,
                                   FALSE) IN
            /\ requests' = Finished(c)
            /\ lastResponse' =
                 Response("ok", Returned("none", NoCollection, Null),
                          Returned("data", data, Null))
            /\ UNCHANGED <<backendHealthStatus, geoCache>>
       ELSE IF outcome = "status"
         THEN /\ UNCHANGED backendHealthStatus
              /\ StartFallback(Finished(c), c.country, outcome)
         ELSE /\ backendHealthStatus' = [isHealthy |-> FALSE,
                                         lastChecked |-> now]
              /\ StartFallback(Finished(c), c.country, outcome)

\* The fallback loader of call c settles: loadTopoJSON caches and returns a
\* decoded collection, the loader turns every failure into null, and
\* fetchWithFallback returns the collection or null.
LocalSettled(c, outcome) ==
  /\ UNCHANGED nonProviderVars
  /\ BagIn(c, requests)
  /\ c.pc = "local"
  /\ UNCHANGED <<backendHealthStatus, now, probeLog>>
  /\ requests' = Finished(c)
  /\ LET path == adminByCountry(c.country) IN
     IF outcome \in SuccessOutcomes
       THEN LET data == Collection(path, ProviderRevision,
                                   outcome = "zeroGeometries") IN
            /\ geoCache' = MapSet(geoCache, path, data)
            /\ lastResponse' =
                 Response(c.api, Returned("data", data, Null),
                          Returned("data", data, Null))
       ELSE /\ UNCHANGED geoCache
            /\ lastResponse' =
                 Response(c.api, Returned("null", NoCollection, Null),
                          Returned("null", NoCollection, Null))

NextProvider ==
  \/ \E n \in ProviderCountries : providerLoadAdminBoundaries(n)
  \/ forceBackendHealthCheck
  \/ \E c \in BagToSet(requests) : \E o \in ProbeOutcomes :
       HealthSettled(c, o)
  \/ \E c \in BagToSet(requests) : \E o \in ApiOutcomes : ApiSettled(c, o)
  \/ \E c \in BagToSet(requests) : \E o \in SourceOutcomes :
       LocalSettled(c, o)
  \/ Tick

SpecProvider == Init /\ [][NextProvider]_vars

\* ========================================================================
\* Antimeridian repair and bounds fitting
\* (fixAntimeridianCrossing, calculateFitBounds, clampCoordinates,
\*  SiteMap.fitToBounds, MapContainer.loadCountryData)
\* ========================================================================

\* A point is <<lng, lat>> in whole degrees; a ring is a sequence of points.
\* A feature is [id, geometry]; a geometry is [type, coordinates] with the
\* coordinates of GeoJSON (Point: a point, Polygon: rings, MultiPolygon:
\* polygons); type "null" stands for geometry: null.
Geometry(type, coordinates) == [type |-> type, coordinates |-> coordinates]
NullGeometry == Geometry("null", <<>>)
Feature(id, geometry) == [id |-> id, geometry |-> geometry]

Range(f) == {f[i] : i \in DOMAIN f}
MinOf(S) == CHOOSE x \in S : \A y \in S : x <= y
MaxOf(S) == CHOOSE x \in S : \A y \in S : x >= y

\* ring.map(coord => coord[0])
getLngsFromRing(ring) == {ring[i][1] : i \in DOMAIN ring}

\* Variant: a span of exactly 180 degrees counts as crossing.
RingCrosses_Inclusive(ring) ==
  /\ ring # <<>>
  /\ MaxOf(getLngsFromRing(ring)) - MinOf(getLngsFromRing(ring)) >= 180

\* maxLng - minLng > 180 (Math.min and Math.max of no number are Infinity
\* and -Infinity, so an empty ring does not cross).
RingCrosses(ring) ==
  /\ ring # <<>>
  /\ MaxOf(getLngsFromRing(ring)) - MinOf(getLngsFromRing(ring)) > 180

\* Variant: every point of a crossing ring is shifted by 360.
FixRing_ShiftsAll(ring) ==
  IF RingCrosses(ring)
    THEN [i \in DOMAIN ring |-> <<ring[i][1] + 360, ring[i][2]>>]
    ELSE ring

\* The callback of polygon.map: a crossing ring gets 360 added to its
\* negative longitudes.
FixRing(ring) ==
  IF RingCrosses(ring)
    THEN [i \in DOMAIN ring |->
            IF ring[i][1] < 0 THEN <<ring[i][1] + 360, ring[i][2]>>
                              ELSE ring[i]]
    ELSE ring

FixPolygon(polygon) == [i \in DOMAIN polygon |-> FixRing(polygon[i])]

\* The polygons of a geometry, as fixAntimeridianCrossing collects them.
PolygonsOf(geometry) ==
  IF geometry.type = "Polygon" THEN <<geometry.coordinates>>
                               ELSE geometry.coordinates

\* The callback of geoJSON.features.map.
FixFeature(feature) ==
  IF feature.geometry.type \notin {"Polygon", "MultiPolygon"}
    THEN feature
    ELSE LET polygons == PolygonsOf(feature.geometry)
             hasAntimeridianIssue ==
               \E i \in DOMAIN polygons : \E j \in DOMAIN polygons[i] :
                 RingCrosses(polygons[i][j])
             fixedPolygons == [i \in DOMAIN polygons |->
                                FixPolygon(polygons[i])]
         IN IF ~hasAntimeridianIssue
              THEN feature
              ELSE [feature EXCEPT
                      !.geometry =
                        IF feature.geometry.type = "MultiPolygon"
                          THEN Geometry("MultiPolygon", fixedPolygons)
                          ELSE Geometry("Polygon", fixedPolygons[1])]

fixAntimeridianCrossing(fc) == [i \in DOMAIN fc |-> FixFeature(fc[i])]

\* featureCrossesAntimeridian(feature): the exterior ring (poly[0]) of some
\* polygon of the feature is wider than 180 degrees.
featureCrossesAntimeridian(feature) ==
  /\ feature.geometry.type \in {"Polygon", "MultiPolygon"}
  /\ LET polygons == PolygonsOf(feature.geometry) IN
     \E i \in DOMAIN polygons :
       /\ polygons[i] # <<>>
       /\ RingCrosses(polygons[i][1])

\* ---- numbers of the bounds computation ----
\* Bounds are computed in units of 1/200000 degree, in which 85.0511
\* degrees and the 5% padding of whole-degree ranges are integers.
\* Infinity, -Infinity and NaN are values beside the finite numbers.
UnitsPerDegree == 200000
LNG_LIMIT == 180 * UnitsPerDegree
LAT_LIMIT == 17010220
PosInf == 1073741824
NegInf == -1073741824
NaN == 1073741825

isFinite(x) == x \notin {PosInf, NegInf, NaN}

Negated(x) ==
  IF x = NaN THEN NaN
  ELSE IF x = PosInf THEN NegInf
  ELSE IF x = NegInf THEN PosInf
  ELSE -x

Plus(a, b) ==
  IF a = NaN \/ b = NaN THEN NaN
  ELSE IF ~isFinite(a) /\ ~isFinite(b) THEN (IF a = b THEN a ELSE NaN)
  ELSE IF ~isFinite(a) THEN a
  ELSE IF ~isFinite(b) THEN b
  ELSE a + b

Minus(a, b) == Plus(a, Negated(b))

\* x * 0.05
Padding(x) == IF isFinite(x) THEN x \div 20 ELSE x

GreaterThan(a, b) == a # NaN /\ b # NaN /\ a > b

MathMin(a, b) ==
  IF a = NaN \/ b = NaN THEN NaN ELSE IF a < b THEN a ELSE b
MathMax(a, b) ==
  IF a = NaN \/ b = NaN THEN NaN ELSE IF a > b THEN a ELSE b

\* Variant: only the latitude is clamped.
clampCoordinates_LatOnly(lng, lat) ==
  <<lng, MathMax(-LAT_LIMIT, MathMin(LAT_LIMIT, lat))>>

clampCoordinates(lng, lat) ==
  <<MathMax(-LNG_LIMIT, MathMin(LNG_LIMIT, lng)),
    MathMax(-LAT_LIMIT, MathMin(LAT_LIMIT, lat))>>

\* Every position of a geometry and of a collection (coordEach of bbox).
PointsOfGeometry(geometry) ==
  IF geometry.type = "Point" THEN {geometry.coordinates}
  ELSE IF geometry.type \in {"Polygon", "MultiPolygon"}
    THEN LET polygons == PolygonsOf(geometry) IN
         UNION {UNION {Range(polygons[i][j]) : j \in DOMAIN polygons[i]} :
                  i \in DOMAIN polygons}
  ELSE {}

PointsOf(fc) == UNION {PointsOfGeometry(fc[i].geometry) : i \in DOMAIN fc}

\* bbox of a set of positions: [minLng, minLat, maxLng, maxLat], which is
\* [Infinity, Infinity, -Infinity, -Infinity] when there is no position.
bbox(points) ==
  IF points = {}
    THEN <<PosInf, PosInf, NegInf, NegInf>>
    ELSE <<MinOf({pt[1] : pt \in points}) * UnitsPerDegree,
           MinOf({pt[2] : pt \in points}) * UnitsPerDegree,
           MaxOf({pt[1] : pt \in points}) * UnitsPerDegree,
           MaxOf({pt[2] : pt \in points}) * UnitsPerDegree>>

\* Variant: the filter forgets the test of the feature's own width.
IsMainFeature_NoSpanTest(feature) ==
  LET fb == bbox(PointsOfGeometry(feature.geometry)) IN
  /\ GreaterThan(Plus(fb[1], fb[3]), 2 * (-130) * UnitsPerDegree)
  /\ GreaterThan(2 * 170 * UnitsPerDegree, Plus(fb[1], fb[3]))

\* data.features.filter(...) of the antimeridian branch: features whose own
\* box is at most 180 degrees wide and centred in (-130, 170).
IsMainFeature(feature) ==
  LET fb == bbox(PointsOfGeometry(feature.geometry)) IN
  /\ ~GreaterThan(Minus(fb[3], fb[1]), LNG_LIMIT)
  /\ GreaterThan(Plus(fb[1], fb[3]), 2 * (-130) * UnitsPerDegree)
  /\ GreaterThan(2 * 170 * UnitsPerDegree, Plus(fb[1], fb[3]))

\* The box the fit is computed from: that of the collection, or of its main
\* features when the collection is wider than 180 degrees and has some.
FitBox(fc) ==
  LET all == bbox(PointsOf(fc))
      mainFeatures == {i \in DOMAIN fc : IsMainFeature(fc[i])}
  IN IF GreaterThan(Minus(all[3], all[1]), LNG_LIMIT) /\ mainFeatures # {}
       THEN bbox(UNION {PointsOfGeometry(fc[i].geometry) :
                          i \in mainFeatures})
       ELSE all

\* The filter callback written out in MapContainer.loadCountryData: a
\* feature is dropped when its box is wider than 180 degrees or its centre
\* is below -130 or above 170 (a centre that is NaN passes both tests).
IsMainFeatureInline(feature) ==
  LET fb == bbox(PointsOfGeometry(feature.geometry)) IN
  /\ ~GreaterThan(Minus(fb[3], fb[1]), LNG_LIMIT)
  /\ ~GreaterThan(2 * (-130) * UnitsPerDegree, Plus(fb[1], fb[3]))
  /\ ~GreaterThan(Plus(fb[1], fb[3]), 2 * 170 * UnitsPerDegree)

\* Variant: MapContainer filters with the callback of calculateFitBounds.
InlineFitBox_SharedFilter(fc) ==
  LET all == bbox(PointsOf(fc))
      mainFeatures == {i \in DOMAIN fc : IsMainFeature(fc[i])}
  IN IF GreaterThan(Minus(all[3], all[1]), LNG_LIMIT) /\ mainFeatures # {}
       THEN bbox(UNION {PointsOfGeometry(fc[i].geometry) :
                          i \in mainFeatures})
       ELSE all

\* The box MapContainer.loadCountryData computes its bounds from.
InlineFitBox(fc) ==
  LET all == bbox(PointsOf(fc))
      mainFeatures == {i \in DOMAIN fc : IsMainFeatureInline(fc[i])}
  IN IF GreaterThan(Minus(all[3], all[1]), LNG_LIMIT) /\ mainFeatures # {}
       THEN bbox(UNION {PointsOfGeometry(fc[i].geometry) :
                          i \in mainFeatures})
       ELSE all

BoxIsFinite(box) == \A k \in 1..4 : isFinite(box[k])

\* The padded and clamped corners of a box.
PaddedCorners(box) ==
  LET lngPad == Padding(Minus(box[3], box[1]))
      latPad == Padding(Minus(box[4], box[2]))
  IN <<clampCoordinates(Minus(box[1], lngPad), Minus(box[2], latPad)),
       clampCoordinates(Plus(box[3], lngPad), Plus(box[4], latPad))>>

calculateFitBounds(fc) == PaddedCorners(FitBox(fc))

\* ---- the collections of the model ----
LngPool == <<170, -170, 0, -10, 100, -100, 180, -180>>
Lngs == {LngPool[i] : i \in 1..MaxLngs}

\* A ring of four points on the latitudes 10 and 20.
Ring(a, b, c, d) == <<<<a, 10>>, <<b, 10>>, <<c, 20>>, <<d, 20>>>>

CollectionShapes ==
  {"empty", "nullGeometry", "point", "polygon", "polygonWithHole",
   "multiPolygon", "twoPolygons", "polygonAndNull"}

\* The collection of a shape: its first ring has the longitudes a, b, c, d,
\* its second ring, polygon or feature the longitudes e and f.
CollectionOf(shape, a, b, c, d, e, f) ==
  CASE shape = "empty" -> <<>>
    [] shape = "nullGeometry" -> <<Feature(1, NullGeometry)>>
    [] shape = "point" -> <<Feature(1, Geometry("Point", <<a, 10>>))>>
    [] shape = "polygon" ->
         <<Feature(1, Geometry("Polygon", <<Ring(a, b, c, d)>>))>>
    [] shape = "polygonWithHole" ->
         <<Feature(1, Geometry("Polygon",
                               <<Ring(a, b, c, d), Ring(e, f, f, e)>>))>>
    [] shape = "multiPolygon" ->
         <<Feature(1, Geometry("MultiPolygon",
                               <<<<Ring(a, b, c, d)>>,
                                 <<Ring(e, f, f, e)>>>>))>>
    [] shape = "twoPolygons" ->
         <<Feature(1, Geometry("Polygon", <<Ring(a, b, c, d)>>)),
           Feature(2, Geometry("Polygon", <<Ring(e, f, f, e)>>))>>
    [] shape = "polygonAndNull" ->
         <<Feature(1, Geometry("Polygon", <<Ring(a, b, c, d)>>)),
           Feature(2, NullGeometry)>>

InitGeometryInputs ==
  /\ InitOutsideGeometry
  /\ \E shape \in CollectionShapes :
       \E a \in Lngs, b \in Lngs, c \in Lngs, d \in Lngs, e \in Lngs,
          f \in Lngs :
         geo = GeoState(CollectionOf(shape, a, b, c, d, e, f))

\* fixAntimeridianCrossing(input), as loadTopoJSON applies it.
Repair ==
  /\ UNCHANGED nonGeometryVars
  /\ geo.stage = "input"
  /\ geo' = [geo EXCEPT !.stage = "repaired",
                        !.once = fixAntimeridianCrossing(geo.input)]

\* fixAntimeridianCrossing applied to its own result.
RepairAgain ==
  /\ UNCHANGED nonGeometryVars
  /\ geo.stage = "repaired"
  /\ geo' = [geo EXCEPT !.stage = "repairedTwice",
                        !.twice = fixAntimeridianCrossing(geo.once)]

\* calculateFitBounds(data) for the repaired collection.
ComputeFitBounds ==
  /\ UNCHANGED nonGeometryVars
  /\ geo.stage = "repairedTwice"
  /\ geo' = [geo EXCEPT !.stage = "bounded",
                        !.bounds = calculateFitBounds(geo.once)]

\* SiteMap.fitToBounds(data): the same computation as calculateFitBounds,
\* followed by map.fitBounds with the two corners.  The load effect calls
\* it with collections of at least one feature.
fitToBounds ==
  /\ UNCHANGED nonGeometryVars
  /\ geo.stage = "bounded"
  /\ geo.once # <<>>
  /\ geo' = [geo EXCEPT
               !.stage = "fitted",
               !.mapView = FitBoundsView(PaddedCorners(FitBox(geo.once)))]

\* The bounds part of MapContainer.loadCountryData: the box is validated
\* with isFinite before it is padded, clamped and stored; for a box that is
\* not finite fitToBounds is set to null.
loadCountryDataBounds ==
  /\ UNCHANGED nonGeometryVars
  /\ geo.stage = "bounded"
  /\ geo' = [geo EXCEPT
               !.stage = "fitted",
               !.mcFit = IF BoxIsFinite(InlineFitBox(geo.once))
                           THEN PaddedCorners(InlineFitBox(geo.once))
                           ELSE <<>>]

NextGeometry ==
  \/ Repair
  \/ RepairAgain
  \/ ComputeFitBounds
  \/ fitToBounds
  \/ loadCountryDataBounds

SpecGeometry == InitGeometryInputs /\ [][NextGeometry]_vars

\* ========================================================================
\* Decoding (normalizeGeoData of the legacy geoDataService, and the hover
\* handler of AdminBoundariesLayer)
\* ========================================================================

\* A string is the sequence of its characters; NUL and TAB stand for the
\* characters U+0000 and U+0009.
NUL == "<NUL>"
TAB == "<TAB>"
Unknown == <<"U", "n", "k", "n", "o", "w", "n">>

\* The property keys normalizeGeoData reads, in the order of its || chain.
NameKeys == <<"name", "name_en", "NAME", "admin", "NAME_EN", "name_long",
              "brk_name", "formal_en", "gn_name">>

\* props[key] is truthy: the key is there and its string is not empty.
Truthy(props, key) == key \in DOMAIN props /\ props[key] # <<>>

RECURSIVE FirstTruthy(_, _)
\* props.name || props.name_en || ... || "Unknown", from the k-th key on.
FirstTruthy(props, k) ==
  IF k > Len(NameKeys) THEN Unknown
  ELSE IF Truthy(props, NameKeys[k]) THEN props[NameKeys[k]]
  ELSE FirstTruthy(props, k + 1)

\* feature(topology, object): the features of a geometry collection.
TopologyFeatures(object) == object.geometries

\* normalizeGeoData(rawData): a Topology is converted through its first
\* object, a FeatureCollection is taken as it is, anything else is thrown;
\* the collection is repaired and every feature is rebuilt with its index
\* as id and the one property name.
normalizeGeoData(rawData) ==
  IF rawData.type = "Topology" /\ rawData.objects = <<>>
    THEN Decoded("error", <<>>, "TopoJSON has no objects")
  ELSE IF rawData.type \notin {"Topology", "FeatureCollection"}
    THEN Decoded("error", <<>>,
                 "Input data is not a valid GeoJSON or TopoJSON object.")
  ELSE LET geoData == fixAntimeridianCrossing(
                        IF rawData.type = "Topology"
                          THEN TopologyFeatures(rawData.objects[1])
                          ELSE rawData.features)
       IN Decoded("data",
                  [i \in DOMAIN geoData |->
                     [type |-> geoData[i].type, id |-> i - 1,
                      geometry |-> geoData[i].geometry,
                      properties |->
                        [name |-> FirstTruthy(geoData[i].properties, 1)]]],
                  Null)

\* ---- the hover handler of AdminBoundariesLayer ----
RECURSIVE StripTrailingNul(_)
\* rawName.replace(/\0+$/, "")
StripTrailingNul(str) ==
  IF str # <<>> /\ str[Len(str)] = NUL
    THEN StripTrailingNul(SubSeq(str, 1, Len(str) - 1))
    ELSE str

WhiteSpace == {" ", TAB}

RECURSIVE TrimEnd(_)
TrimEnd(str) ==
  IF str # <<>> /\ str[Len(str)] \in WhiteSpace
    THEN TrimEnd(SubSeq(str, 1, Len(str) - 1))
    ELSE str

RECURSIVE TrimStart(_)
TrimStart(str) ==
  IF str # <<>> /\ str[1] \in WhiteSpace
    THEN TrimStart(SubSeq(str, 2, Len(str)))
    ELSE str

\* String.prototype.trim
Trim(str) == TrimStart(TrimEnd(str))

\* The name handleMouseMove reports: name ?? NAME ?? admin of the pointed
\* feature without trailing NUL characters, trimmed; <<>> stands for null.
HoverName(props) ==
  LET rawName == IF "name" \in DOMAIN props THEN props["name"]
                 ELSE IF "NAME" \in DOMAIN props THEN props["NAME"]
                 ELSE IF "admin" \in DOMAIN props THEN props["admin"]
                 ELSE <<>>
  IN IF rawName # <<>> THEN Trim(StripTrailingNul(rawName)) ELSE <<>>

\* ---- the documents of the model ----
RawNamePool == << <<"F", "r", "a", "n", "c", "e", NUL, NUL>>,
                  <<>>,
                  <<"T", "e", "x", "a", "s">>,
                  <<" ", "P", "e", "r", "u", TAB>>,
                  <<"C", "h", "a", "d", NUL, " ">> >>
RawNames == {RawNamePool[i] : i \in 1..MaxRawNames}

\* Keys that occur in the properties of the model's documents.
Keys == {NameKeys[i] : i \in 1..MaxKeys}

\* The properties objects: some of the keys, each with a raw name.
PropertiesObjects == UNION {[dom -> RawNames] : dom \in SUBSET Keys}

\* A feature, or a geometry of a topology object, with properties props.
RawFeature(props) ==
  [type |-> "Feature", properties |-> props,
   geometry |-> Geometry("Polygon", <<Ring(170, -170, -170, 170)>>)]

DocumentShapes ==
  {"null", "feature", "featureCollection", "topologyNoObjects",
   "topologyNoGeometries", "topology"}

DocumentOf(shape, props) ==
  CASE shape = "null" -> RawDocument("none", <<>>, <<>>)
    [] shape = "feature" -> RawDocument("Feature", <<>>, <<>>)
    [] shape = "featureCollection" ->
         RawDocument("FeatureCollection", <<>>, <<RawFeature(props)>>)
    [] shape = "topologyNoObjects" -> RawDocument("Topology", <<>>, <<>>)
    [] shape = "topologyNoGeometries" ->
         RawDocument("Topology",
                     <<[type |-> "GeometryCollection", geometries |-> <<>>]>>,
                     <<>>)
    [] shape = "topology" ->
         RawDocument("Topology",
                     <<[type |-> "GeometryCollection",
                        geometries |-> <<RawFeature(props)>>]>>,
                     <<>>)

InitDecodingInputs ==
  /\ InitSiteMap /\ InitMapContainer /\ InitCache /\ InitService
  /\ InitProvider /\ InitGeometry /\ InitZoom /\ InitSlug
  /\ \E shape \in DocumentShapes : \E props \in PropertiesObjects :
       decoding = DecodingState(DocumentOf(shape, props))

\* normalizeGeoData(rawData), as loadTopoJSON and fetchWithFallback call it.
Decode ==
  /\ UNCHANGED nonDecodingVars
  /\ decoding.stage = "raw"
  /\ decoding' = [decoding EXCEPT !.stage = "decoded",
                                  !.out = normalizeGeoData(decoding.raw)]

\* The pointer is over feature i of the decoded collection.
layerMouseMove(i) ==
  /\ UNCHANGED nonDecodingVars
  /\ decoding.stage = "decoded"
  /\ i \in DOMAIN decoding.out.features
  /\ decoding' = [decoding EXCEPT
                    !.stage = "hovered",
                    !.hovered = HoverName(decoding.out.features[i].properties)]

NextDecoding ==
  \/ Decode
  \/ \E i \in 1..1 : layerMouseMove(i)

SpecDecoding == InitDecodingInputs /\ [][NextDecoding]_vars

\* ========================================================================
\* The zoom heuristic (calculateZoomFromBounds of src/lib/mapUtils.ts and
\* calculateViewForFocus)
\* ========================================================================

\* Boxes are counted in units of 1/64 degree, zoom levels in half levels
\* rounded down (a zoom of 27 stands for a level in [13.5, 14)).
DegreeUnits == 64
HalfTurn == 180 * DegreeUnits

\* Math.abs
Abs(x) ==
  IF x = NaN THEN NaN
  ELSE IF ~isFinite(x) THEN PosInf
  ELSE IF x < 0 THEN -x ELSE x

\* (180 / 2^(level))^2 in squared units, for the half level q = 2 * level.
RangeLimit(q) ==
  IF q >= 0 THEN (HalfTurn * HalfTurn) \div (2 ^ q)
            ELSE (HalfTurn * HalfTurn) * (2 ^ (-q))

\* Math.log2(360 / maxRange) - 1 = log2(180 / maxRange): the largest half
\* level q with (180 / maxRange)^2 >= 2^q.  360 / 0 is Infinity, 360 /
\* Infinity is 0 and its logarithm -Infinity.
Log2Minus1(maxRange) ==
  IF maxRange = NaN THEN NaN
  ELSE IF maxRange = 0 THEN PosInf
  ELSE IF maxRange = PosInf THEN NegInf
  ELSE MaxOf({q \in -4..26 : maxRange * maxRange <= RangeLimit(q)})

\* Variant: the zoom is only bounded from below.
calculateZoomFromBounds_NoUpperClamp(bounds) ==
  LET lonRange == Abs(Minus(bounds[3], bounds[1]))
      latRange == Abs(Minus(bounds[4], bounds[2]))
      maxRange == MathMax(lonRange, latRange)
  IN MathMax(2 * 1, Log2Minus1(maxRange))

calculateZoomFromBounds(bounds) ==
  LET lonRange == Abs(Minus(bounds[3], bounds[1]))
      latRange == Abs(Minus(bounds[4], bounds[2]))
      maxRange == MathMax(lonRange, latRange)
  IN MathMax(2 * 1, MathMin(Log2Minus1(maxRange), 2 * 15))

\* levelClamps[focusedLevel] ?? { min: 3, max: 12 }, in half levels.
levelClamps(focusedLevel) ==
  CASE focusedLevel = 0 -> [min |-> 2 * 1, max |-> 2 * 4]
    [] focusedLevel = 1 -> [min |-> 2 * 3, max |-> 2 * 8]
    [] focusedLevel = 2 -> [min |-> 2 * 6, max |-> 2 * 12]
    [] focusedLevel = 3 -> [min |-> 2 * 8, max |-> 2 * 14]
    [] focusedLevel = 4 -> [min |-> 2 * 10, max |-> 2 * 15]
    [] OTHER -> [min |-> 2 * 3, max |-> 2 * 12]

\* The zoom of calculateViewForFocus(focusedLevel, feature) for a feature
\* with the box bounds.
calculateViewForFocus(focusedLevel, bounds) ==
  LET clamp == levelClamps(focusedLevel) IN
  MathMax(clamp.min, MathMin(calculateZoomFromBounds(bounds), clamp.max))

\* ---- the boxes of the model ----
\* Longitude spans: 0, 360, 10, 1, 45, 1/64, 180 and 380 degrees.
SpanPool == <<0, 23040, 640, 64, 2880, 1, 11520, 24320>>
Spans == {SpanPool[i] : i \in 1..MaxSpans}

\* A box of the given width whose height is half its width.
Box(width, height) ==
  <<-(width \div 2), 0, width - (width \div 2), height \div 2>>

\* bbox of a feature without any position.
EmptyBox == <<PosInf, PosInf, NegInf, NegInf>>

Boxes == {Box(w, h) : w \in Spans, h \in Spans} \cup {EmptyBox}

InitZoomInputs ==
  /\ InitSiteMap /\ InitMapContainer /\ InitCache /\ InitService
  /\ InitProvider /\ InitGeometry /\ InitDecoding /\ InitSlug
  /\ \E a \in Boxes, b \in Boxes : zoom = ZoomState(a, b)

\* calculateZoomFromBounds for both boxes.
ComputeZoom ==
  /\ UNCHANGED nonZoomVars
  /\ zoom.stage = "input"
  /\ zoom' = [zoom EXCEPT !.stage = "zoomed",
                          !.zoomA = calculateZoomFromBounds(zoom.a),
                          !.zoomB = calculateZoomFromBounds(zoom.b)]

\* calculateViewForFocus for both boxes at one focus level.
ComputeView(focusedLevel) ==
  /\ UNCHANGED nonZoomVars
  /\ zoom.stage = "zoomed"
  /\ zoom' = [zoom EXCEPT
                !.stage = "viewed",
                !.level = focusedLevel,
                !.viewA = calculateViewForFocus(focusedLevel, zoom.a),
                !.viewB = calculateViewForFocus(focusedLevel, zoom.b)]

NextZoom ==
  \/ ComputeZoom
  \/ \E focusedLevel \in 0..(MAX_FOCUS_LEVEL + 1) : ComputeView(focusedLevel)

SpecZoom == InitZoomInputs /\ [][NextZoom]_vars

\* ========================================================================
\* File names of the per-country sources (GEO_PATHS.adminByCountry of
\* src/lib/geoDataService.ts and the splitter of the data preparation)
\* ========================================================================

\* The characters of the model's names, and their lower-case forms; "E'"
\* and "e'" stand for the letter E with an acute accent.
CharPool == <<"A", " ", "b", "-", "1", "E'", "(">>
LowerCaseOf(c) ==
  CASE c = "A" -> "a"
    [] c = "E'" -> "e'"
    [] OTHER -> c

\* [a-z0-9] among the characters of the model.
AsciiAlnum == {"a", "b", "1"}

\* String.prototype.toLowerCase
toLowerCase(str) == [i \in DOMAIN str |-> LowerCaseOf(str[i])]

RECURSIVE SkipRun(_)
\* The rest of str after its leading characters outside [a-z0-9].
SkipRun(str) ==
  IF str # <<>> /\ Head(str) \notin AsciiAlnum THEN SkipRun(Tail(str))
                                                ELSE str

RECURSIVE ReplaceRuns(_)
\* str.replace(/[^a-z0-9]+/g, "-")
ReplaceRuns(str) ==
  IF str = <<>> THEN <<>>
  ELSE IF Head(str) \in AsciiAlnum
    THEN <<Head(str)>> \o ReplaceRuns(Tail(str))
  ELSE <<"-">> \o ReplaceRuns(SkipRun(str))

RECURSIVE DropLeadingHyphens(_)
DropLeadingHyphens(str) ==
  IF str # <<>> /\ Head(str) = "-" THEN DropLeadingHyphens(Tail(str))
                                    ELSE str

RECURSIVE DropTrailingHyphens(_)
DropTrailingHyphens(str) ==
  IF str # <<>> /\ str[Len(str)] = "-"
    THEN DropTrailingHyphens(SubSeq(str, 1, Len(str) - 1))
    ELSE str

\* str.replace(/^-+|-+$/g, "")
TrimHyphens(str) == DropTrailingHyphens(DropLeadingHyphens(str))

\* Variant: the runs are replaced but the ends are not trimmed.
adminByCountryPath_Untrimmed(countryName) ==
  <<"/geo/admin-by-country/">> \o ReplaceRuns(toLowerCase(countryName))
    \o <<"-admin.json">>

\* GEO_PATHS.adminByCountry(countryName) for a name given by its
\* characters: the directory, the file name and the suffix.
adminByCountryPath(countryName) ==
  <<"/geo/admin-by-country/">>
    \o TrimHyphens(ReplaceRuns(toLowerCase(countryName)))
    \o <<"-admin.json">>

\* The file name the splitter writes the collection of a country to.
splitterFilename(country) ==
  TrimHyphens(ReplaceRuns(toLowerCase(country))) \o <<"-admin.json">>

\* path.join(OUTPUT_DIR, filename), as seen from the web root public/.
outputPath(filename) == <<"/geo/admin-by-country/">> \o filename

\* ---- the names of the model ----
Chars == {CharPool[i] : i \in 1..MaxChars}
EntityNames == UNION {[1..n -> Chars] : n \in 0..MaxNameLen}

InitSlugInputs ==
  /\ InitSiteMap /\ InitMapContainer /\ InitCache /\ InitService
  /\ InitProvider /\ InitGeometry /\ InitDecoding /\ InitZoom
  /\ \E name \in EntityNames : slug = SlugState(name)

\* loadAdminBoundaries computes the path it asks loadTopoJSON for.
RequestAdminFile ==
  /\ UNCHANGED nonSlugVars
  /\ slug.stage = "input"
  /\ slug' = [slug EXCEPT !.stage = "requested",
                          !.path = adminByCountryPath(slug.name)]

\* The splitter writes the file of the country.
WriteAdminFile ==
  /\ UNCHANGED nonSlugVars
  /\ slug.stage = "requested"
  /\ slug' = [slug EXCEPT
                !.stage = "written",
                !.written = outputPath(splitterFilename(slug.name))]

NextSlug ==
  \/ RequestAdminFile
  \/ WriteAdminFile

SpecSlug == InitSlugInputs /\ [][NextSlug]_vars

TypeOK ==
  /\ focusLevel \in Int
  /\ hoveredRegion \in HoverNames \cup {Null}
  /\ focusedFeature \in Names \cup {Null}
  /\ isLoading \in BOOLEAN /\ isTransitioning \in BOOLEAN
  /\ timers \in 0..MaxTimers

\* ========================================================================
\* Properties of SiteMap and MapContainer
\* ========================================================================

Accepting == ~isTransitioning /\ ~isLoading

\* C1: after any sequence of focus, goBack, exitFocus calls and clicks, the
\* entity stack has exactly focusLevel entries and entry i carries level i.
C1_StackMatchesLevel ==
  /\ Len(entityStack) = focusLevel
  /\ \A i \in 1..Len(entityStack) : entityStack[i].level = i

\* C2: once every loader call has settled and every timer has fired, neither
\* isLoading nor the transition lock is still set (a flag that is set in such
\* a state stays set forever).
C2_FlagsReleasedWhenSettled ==
  (loads = {} /\ timers = 0) => (~isLoading /\ ~isTransitioning)

\* C3: a focus, goBack or exitFocus call made while the transition lock is
\* held changes no focus state.
C3_LockedCallsDropped ==
  [][(isTransitioning /\
       (\/ goBack
        \/ exitFocus
        \/ \E n \in Names : \E a \in FocusArgs : focus(n, a[1], a[2])))
     => UNCHANGED <<focusLevel, entityStack, hoveredRegion, isLoading>>]_vars

\* C4: a load that settles for a country that is no longer the focused one
\* changes neither the boundaries shown nor the requested view fit.
C4_StaleLoadInert ==
  [][\A l \in mcLoads : \A o \in McOutcomes :
       (loadCountryData(l, o) /\ l.country # focusedCountry)
         => UNCHANGED <<adminBoundaries, mcFitToBounds>>]_vars

\* C5: focus(entityName, targetLevel) called during a transition or a load,
\* or with a target level outside 1..MAX_FOCUS_LEVEL, changes nothing: level,
\* stack, hover, isLoading, per-level data and lock stay as they were.
C5_RejectedFocusIsNoOp ==
  [][\/ UNCHANGED <<focusLevel, entityStack, hoveredRegion, isLoading,
                    dataByLevel, isTransitioning, focusedFeature, loads,
                    timers, view>>
     \/ ~ \E n \in Names : \E a \in FocusArgs :
            LET target == IF a[1] THEN a[2] ELSE focusLevel + 1 IN
            /\ \/ isTransitioning
               \/ isLoading
               \/ target < 1
               \/ target > MAX_FOCUS_LEVEL
            /\ focus(n, a[1], a[2])]_vars

\* A focus call was just refused while a load was in progress.
C5_Witness ==
  /\ lastCall.op = "focus" /\ ~lastCall.ok
  /\ isLoading

\* C6: the focus level is always an integer in 0..MAX_FOCUS_LEVEL.
C6_LevelInRange == focusLevel \in 0..MAX_FOCUS_LEVEL

\* The deepest level is reached and a further click did not drill.
C6_Witness ==
  /\ focusLevel = MAX_FOCUS_LEVEL
  /\ lastCall = [op |-> "click", ok |-> FALSE, pre |-> MAX_FOCUS_LEVEL]
  /\ Accepting

\* C7: exitFocus from a level above 0 yields level 0, an empty stack, no
\* hovered region and no focused feature.
C7_ExitResets ==
  [][(focusLevel > 0 /\ exitFocus)
     => (/\ focusLevel' = 0
         /\ entityStack' = <<>>
         /\ hoveredRegion' = Null
         /\ focusedFeature' = Null)]_vars

\* exitFocus was just called at a level above 0.
C7_Witness ==
  /\ lastCall.op = "exitFocus" /\ lastCall.pre > 0
  /\ focusLevel = 0

\* C8: after goBack() the per-level data holds no collection for any level
\* above the new level.
C8_GoBackDiscardsDeeperData ==
  (lastCall.op = "goBack" /\ lastCall.ok)
    => \A l \in (focusLevel + 1)..MAX_FOCUS_LEVEL : ~HasData(dataByLevel, l)

\* The rendered layer is an ancestor's data: the nominal level has none.
Fallback ==
  /\ focusLevel >= 1
  /\ currentData # Null
  /\ effectiveDataLevel < focusLevel

\* C9 (as stated): an accepted click or focus made while an ancestor's data
\* is rendered replaces the top stack entry, so the stack does not grow.
C9_FallbackReplaces ==
  [][\A n \in Names :
       (/\ Accepting /\ focusLevel < MAX_FOCUS_LEVEL /\ Fallback
        /\ handleClick(n) \/ focus(n, FALSE, 0))
       => Len(entityStack') = Len(entityStack)]_vars

\* C9 (amended): an accepted click or focus made while an ancestor's data is
\* rendered pushes a new entry and raises the level by one.
C9_FallbackPushes ==
  [][(Accepting /\ focusLevel < MAX_FOCUS_LEVEL /\ Fallback) =>
     \A n \in Names :
       (handleClick(n) \/ focus(n, FALSE, 0))
       => (/\ Len(entityStack') = Len(entityStack) + 1
           /\ SubSeq(entityStack', 1, Len(entityStack)) = entityStack
           /\ entityStack'[Len(entityStack')].name = n
           /\ focusLevel' = focusLevel + 1)]_vars

\* Level 1 had no data; Texas and then California were focused without a
\* goBack in between: three entries.
C9_Witness ==
  /\ Len(entityStack) = 3 /\ focusLevel = 3
  /\ Lookup(dataByLevel, 1) = Null
  /\ entityStack[2].name = "Texas"
  /\ entityStack[3].name = "California"

\* The collection rendered is that of the nearest level, from the focus level
\* down to 0, that has data; nothing is rendered when no level has data.
RendersNearestAncestor ==
  LET withData == {a \in 0..focusLevel : Lookup(dataByLevel, a) \notin {Null, Undefined}} IN
  IF withData = {} THEN currentData = Null
  ELSE \E a \in withData :
         /\ \A b \in withData : b <= a
         /\ currentData = dataByLevel[a]

\* C10: when the loader of the current level returns null or an empty
\* collection, level and stack stay, the level's data is recorded as null and
\* the nearest ancestor with data is rendered.
C10_EmptyResultFallsBack ==
  [][\A l \in loads :
       (l.mounted /\ LoadSettled(l, "empty"))
       => (/\ focusLevel' = focusLevel
           /\ entityStack' = entityStack
           /\ l.level = focusLevel
           /\ dataByLevel'[focusLevel] = Null
           /\ RendersNearestAncestor')]_vars

\* Level 1 returned no data and the world collection is what is rendered.
C10_Witness ==
  /\ focusLevel = 1 /\ Len(entityStack) = 1
  /\ Lookup(dataByLevel, 1) = Null
  /\ ~isLoading /\ loads = {}
  /\ currentData = World

\* The step enters, by a click on feature n, a level that has no loader.
ClickIntoLevelWithoutLoader(n) ==
  /\ Accepting
  /\ focusLevel + 1 <= MAX_FOCUS_LEVEL
  /\ focusLevel + 1 \notin LEVEL_CONFIGS
  /\ handleClick(n)

\* The step settles, with no data, the load of a level entered by a click on
\* feature l.feature.
EmptyLoadAfterClick(l) ==
  /\ l.mounted
  /\ l.feature # Null
  /\ LoadSettled(l, "empty")

\* C11: when the level entered by a click has no data (no loader, or the
\* loader returned null/empty), the view is fitted to the clicked feature,
\* which is the entity on top of the stack, and the collection rendered is
\* that of an ancestor level.
C11_FitsClickedFeature ==
  [][/\ \A n \in Names :
          ClickIntoLevelWithoutLoader(n)
            => /\ view' = [kind |-> "fitBounds", what |-> "feature", key |-> n]
               /\ entityStack'[Len(entityStack')].name = n
               /\ effectiveDataLevel' < focusLevel'
               /\ currentData' = currentData
     /\ \A l \in loads :
          EmptyLoadAfterClick(l)
            => /\ view' = [kind |-> "fitBounds", what |-> "feature",
                           key |-> l.feature]
               /\ entityStack[Len(entityStack)].name = l.feature
               /\ effectiveDataLevel' < focusLevel'
               /\ currentData' # Null]_vars

\* Texas was clicked on the level-1 layer: level 2 has no loader, the view is
\* on the Texas feature and the level-1 collection is still rendered.
C11_Witness ==
  /\ focusLevel = 2
  /\ lastCall = [op |-> "click", ok |-> TRUE, pre |-> 1]
  /\ focusedFeature = "Texas"
  /\ view = FitFeature("Texas")
  /\ effectiveDataLevel = 1

C13_AcceptedFocus ==
  [][Accepting =>
     \A n \in Names : \A a \in FocusArgs :
       LET targetLevel == IF a[1] THEN a[2] ELSE focusLevel + 1
           kept == IF targetLevel - 1 < Len(entityStack)
                     THEN targetLevel - 1 ELSE Len(entityStack)
       IN (/\ targetLevel >= 1 /\ targetLevel <= MAX_FOCUS_LEVEL
           /\ focus(n, a[1], a[2]))
          => (/\ entityStack' = Append(SubSeq(entityStack, 1, kept),
                                       [name |-> n, level |-> targetLevel])
              /\ focusLevel' = targetLevel
              /\ isTransitioning')]_vars

\* focus(name, 2) was accepted at level 3: the stack was cut back to its
\* first entry and the new entity appended.
C13_Witness ==
  /\ lastCall = [op |-> "focus", ok |-> TRUE, pre |-> 3]
  /\ focusLevel = 2 /\ Len(entityStack) = 2
  /\ entityStack[1].level = 1 /\ entityStack[2].level = 2
  /\ isTransitioning

\* C14: goBack() at level 0 changes nothing; at level n > 0 it sets the
\* level to n - 1, keeps the first n - 1 stack entries and clears
\* hoveredRegion and the stored focused feature.
C14_GoBack ==
  [][goBack =>
       IF focusLevel = 0
         THEN UNCHANGED <<focusLevel, entityStack, hoveredRegion,
                          focusedFeature, dataByLevel, isLoading,
                          isTransitioning, loads, timers, view>>
         ELSE /\ focusLevel' = focusLevel - 1
              /\ entityStack' =
                   SubSeq(entityStack, 1,
                          IF focusLevel - 1 < Len(entityStack)
                            THEN focusLevel - 1 ELSE Len(entityStack))
              /\ hoveredRegion' = Null
              /\ focusedFeature' = Null]_vars

\* goBack() was just called at level 2, which had been entered by a click.
C14_Witness ==
  /\ lastCall = [op |-> "goBack", ok |-> TRUE, pre |-> 2]
  /\ focusLevel = 1 /\ Len(entityStack) = 1
  /\ hoveredRegion = Null /\ focusedFeature = Null
  /\ view.kind = "fitBounds" /\ view.what = "data"

\* C15: the renderer command exitFocus issues from a level above 0 is an
\* instantaneous jump to the default world view, never an animated fit or
\* flight.
C15_ExitJumps ==
  [][(focusLevel > 0 /\ exitFocus)
     => (view'.kind = "jumpTo" /\ view'.what = "default")]_vars

\* C16: a pointer move or pointer leave changes at most hoveredRegion (to the
\* name of the feature under the pointer, or to null): it starts no load and
\* changes neither level, stack, isLoading, lock nor per-level data.
C16_HoverIsLocal ==
  [][/\ \A n \in HoverNames :
          handleMouseMove(n)
            => /\ hoveredRegion' = n
               /\ UNCHANGED <<focusLevel, entityStack, isLoading,
                              isTransitioning, dataByLevel, loads, worldLoad,
                              focusedFeature, timers, view>>
     /\ handleMouseLeave
          => /\ hoveredRegion' = Null
             /\ UNCHANGED <<focusLevel, entityStack, isLoading,
                            isTransitioning, dataByLevel, loads, worldLoad,
                            focusedFeature, timers, view>>]_vars

\* The pointer is over Texas while the load of level 1 is pending.
C16_Witness ==
  /\ hoveredRegion = "Texas"
  /\ focusLevel = 1 /\ isLoading
  /\ \E l \in loads : l.mounted

\* ========================================================================
\* Properties of the collection cache
\* ========================================================================

\* C17: concurrent loads of the same uncached path share one fetch: no path
\* ever has two fetches pending at once.
C17_SingleFlight == \A p \in Paths : inFlight[p] <= 1

\* C18: once a path has an entry, a load of it returns the cached collection
\* without starting a fetch, and the entry stays until clearCache() runs.
C18_Memoized ==
  [][/\ \A p \in DOMAIN geoCache :
          loadTopoJSON(p)
            => /\ UNCHANGED <<geoCache, inFlight>>
               /\ lastLoad'.kind = "data"
               /\ lastLoad'.data = geoCache[p]
     /\ clearCache \/ \A p \in DOMAIN geoCache : p \in DOMAIN geoCache']_vars

\* A load was just answered from the cache while another path was being
\* fetched.
C18_Witness ==
  /\ lastLoad.op = "load" /\ lastLoad.hit
  /\ lastLoad.kind = "data"
  /\ MapHas(geoCache, lastLoad.path)
  /\ lastLoad.data = geoCache[lastLoad.path]
  /\ \E q \in Paths : inFlight[q] > 0

C20_ClearEvictsAll ==
  [][/\ clearCache => DOMAIN geoCache' = {}
     /\ \A p \in Paths :
          (DOMAIN geoCache = {} /\ loadTopoJSON(p))
            => /\ inFlight'[p] = inFlight[p] + 1
               /\ lastLoad'.kind = "pending"]_vars

\* clearCache() was just called on a cache that held an entry for every
\* path.
C20_Witness ==
  /\ lastLoad.op = "clear"
  /\ lastLoad.evicted = Cardinality(Paths)
  /\ DOMAIN geoCache = {}

C22_MissingDistinguished ==
  (svc.op = "admin" /\ svc.pc = "done" /\ Len(svc.failures) = 1) =>
    IF svc.failures[1] = "missing"
      THEN svc.result.kind = "null"
      ELSE svc.result.kind # "null"

\* ------------------------------------------------------------------------
\* C23: unforced /health probes are at least one check interval apart, over
\* every interleaving of provider calls.
\* ------------------------------------------------------------------------
C23_ProbesRateLimited ==
  Len(probeLog) = 2 => probeLog[2] - probeLog[1] >= CHECK_INTERVAL_MS

\* ------------------------------------------------------------------------
\* C24: a provider call whose backend attempt did not succeed (backend
\* recorded unhealthy, non-ok status, thrown request or undecodable body)
\* has invoked the fallback loader and returns exactly what that loader
\* returned; a call whose backend attempt succeeded returns the backend's
\* collection without invoking the fallback loader.
\* ------------------------------------------------------------------------
C24_FallsBackToLocal ==
  /\ lastResponse.api \in {"unhealthy", "status", "thrown", "badBody"} =>
       /\ lastResponse.local.kind \in {"data", "null"}
       /\ lastResponse.result = lastResponse.local
  /\ lastResponse.api = "ok" =>
       /\ lastResponse.local.kind = "none"
       /\ lastResponse.result.kind = "data"
       /\ \E n \in ProviderCountries :
            lastResponse.result.data.path = BackendPath(n)

\* The backend answered with a non-ok status and the caller got the
\* collection of the local file.
C24_Witness ==
  /\ lastResponse.api = "status"
  /\ lastResponse.result.kind = "data"
  /\ \E n \in ProviderCountries :
       lastResponse.result.data.path = adminByCountry(n)

\* ------------------------------------------------------------------------
\* C25: antimeridian repair is idempotent: repairing a repaired collection
\* gives the repaired collection.
\* ------------------------------------------------------------------------
C25_RepairIdempotent ==
  geo.stage \notin {"input", "repaired"} => geo.twice = geo.once

\* Some ring of collection fc satisfies P.
SomeRing(fc, P(_)) ==
  \E i \in DOMAIN fc :
    /\ fc[i].geometry.type \in {"Polygon", "MultiPolygon"}
    /\ \E j \in DOMAIN PolygonsOf(fc[i].geometry) :
         \E k \in DOMAIN PolygonsOf(fc[i].geometry)[j] :
           P(PolygonsOf(fc[i].geometry)[j][k])

\* max longitude - min longitude of a ring.
Span(ring) ==
  LET lngs == {ring[i][1] : i \in DOMAIN ring} IN
  (CHOOSE x \in lngs : \A y \in lngs : x >= y)
    - (CHOOSE x \in lngs : \A y \in lngs : x <= y)

StillWide(ring) == Span(ring) > 180

\* The repair changed the collection and left a ring that is still wider
\* than 180 degrees, and the second repair has been applied.
C25_Witness ==
  /\ geo.stage = "repairedTwice"
  /\ geo.once # geo.input
  /\ SomeRing(geo.once, StillWide)

\* ------------------------------------------------------------------------
\* C26: both corners returned by the fit-bounds computation, and both
\* corners of a fit request of SiteMap, lie within longitude [-180, 180]
\* and latitude [-85.0511, 85.0511], also for collections whose repaired
\* longitudes exceed 180.
\* ------------------------------------------------------------------------
CornersInRange(b) ==
  \A k \in 1..2 :
    /\ b[k][1] >= -180 * UnitsPerDegree /\ b[k][1] <= 180 * UnitsPerDegree
    /\ b[k][2] >= -17010220 /\ b[k][2] <= 17010220

C26_CornersClamped ==
  /\ geo.stage \in {"bounded", "fitted"} => CornersInRange(geo.bounds)
  /\ geo.mapView.kind = "fitBounds" => CornersInRange(geo.mapView.bounds)

BeyondLimit(ring) == \E i \in DOMAIN ring : ring[i][1] > 180

\* Bounds were computed for a repaired collection with a longitude above
\* 180, and the eastern corner was clamped to 180.
C26_Witness ==
  /\ geo.stage = "bounded"
  /\ SomeRing(geo.once, BeyondLimit)
  /\ geo.bounds[2][1] = 180 * UnitsPerDegree

\* ------------------------------------------------------------------------
\* C27: when a bound computed for the collection is not finite, no fit
\* request is issued: the renderer's view is the one it had before, and
\* MapContainer stores no bounds.
\* ------------------------------------------------------------------------
C27_NoFitWhenNotFinite ==
  (geo.stage = "fitted" /\ ~BoxIsFinite(FitBox(geo.once))) =>
    /\ geo.mapView = DefaultView
    /\ geo.mcFit = <<>>

\* ------------------------------------------------------------------------
\* C30: the repair maps every ring wider than 180 degrees to the ring with
\* 360 added to its negative longitudes and nothing else changed, leaves
\* every other ring as it is, and returns features without such a ring,
\* without geometry or with another geometry type unchanged; the ring
\* [[170,10],[-170,10],[-170,20],[170,20]] gets the longitudes 170, 190,
\* 190, 170.
\* ------------------------------------------------------------------------
ExpectedRing(ring) ==
  [i \in DOMAIN ring |->
     IF Span(ring) > 180 /\ ring[i][1] < 0
       THEN <<ring[i][1] + 360, ring[i][2]>>
       ELSE ring[i]]

ExpectedFeature(fin, fout) ==
  /\ fout.id = fin.id
  /\ fout.geometry.type = fin.geometry.type
  /\ IF fin.geometry.type \in {"Polygon", "MultiPolygon"}
       THEN LET pin == PolygonsOf(fin.geometry)
                pout == PolygonsOf(fout.geometry)
            IN /\ DOMAIN pout = DOMAIN pin
               /\ \A j \in DOMAIN pin :
                    /\ DOMAIN pout[j] = DOMAIN pin[j]
                    /\ \A k \in DOMAIN pin[j] :
                         pout[j][k] = ExpectedRing(pin[j][k])
               /\ (\A j \in DOMAIN pin : \A k \in DOMAIN pin[j] :
                     Span(pin[j][k]) <= 180) => fout = fin
       ELSE fout = fin

C30_RepairRule ==
  /\ FixRing(<<<<170, 10>>, <<-170, 10>>, <<-170, 20>>, <<170, 20>>>>)
       = <<<<170, 10>>, <<190, 10>>, <<190, 20>>, <<170, 20>>>>
  /\ geo.stage # "input" =>
       /\ DOMAIN geo.once = DOMAIN geo.input
       /\ \A i \in DOMAIN geo.input :
            ExpectedFeature(geo.input[i], geo.once[i])

NarrowWithNegative(ring) ==
  Span(ring) <= 180 /\ \E i \in DOMAIN ring : ring[i][1] < 0

ExactlyHalfTurn(ring) == Span(ring) = 180

\* A repaired collection that had a ring wider than 180 degrees, a ring of
\* exactly 180 degrees and a narrower ring with a negative longitude.
C30_Witness ==
  /\ geo.stage = "repaired"
  /\ SomeRing(geo.input, StillWide)
  /\ SomeRing(geo.input, NarrowWithNegative)
  /\ SomeRing(geo.input, ExactlyHalfTurn)
  /\ geo.once # geo.input

\* ------------------------------------------------------------------------
\* C28: every decoded feature has properties.name, equal to the first
\* non-empty candidate of the source feature without trailing NUL or
\* control characters and without surrounding whitespace, and equal to
\* "Unknown" when no candidate has a value.
\* ------------------------------------------------------------------------
ControlOrSpace == {NUL, TAB, " "}

RECURSIVE StripEnd(_)
StripEnd(str) ==
  IF str # <<>> /\ str[Len(str)] \in ControlOrSpace
    THEN StripEnd(SubSeq(str, 1, Len(str) - 1))
    ELSE str

RECURSIVE StripStart(_)
StripStart(str) ==
  IF str # <<>> /\ str[1] \in {TAB, " "}
    THEN StripStart(SubSeq(str, 2, Len(str)))
    ELSE str

CleanName(str) == StripStart(StripEnd(str))

SourceFeatures(raw) ==
  IF raw.type = "Topology" THEN raw.objects[1].geometries ELSE raw.features

ExpectedName(props) ==
  LET present == {k \in 1..9 :
                    /\ NameKeys[k] \in DOMAIN props
                    /\ props[NameKeys[k]] # <<>>}
  IN IF present = {}
       THEN Unknown
       ELSE CleanName(props[NameKeys[CHOOSE k \in present :
                                       \A m \in present : k <= m]])

C28_NamesNormalized ==
  decoding.out.kind = "data" =>
    \A i \in DOMAIN decoding.out.features :
      decoding.out.features[i].properties.name
        = ExpectedName(SourceFeatures(decoding.raw)[i].properties)

\* ------------------------------------------------------------------------
\* C29: decoding ends in an error and produces no collection for a document
\* that is neither a Topology nor a FeatureCollection, and for a Topology
\* whose selected object has zero geometries.
\* ------------------------------------------------------------------------
C29_DecodeErrors ==
  decoding.stage # "raw" =>
    /\ decoding.raw.type \notin {"Topology", "FeatureCollection"} =>
         decoding.out.kind = "error"
    /\ (/\ decoding.raw.type = "Topology"
        /\ decoding.raw.objects # <<>>
        /\ decoding.raw.objects[1].geometries = <<>>) =>
         decoding.out.kind = "error"

\* ------------------------------------------------------------------------
\* C31: after the repair no ring is wider than 180 degrees (the input
\* longitudes are in [-180, 180]), so featureCrossesAntimeridian is false
\* for every feature of a repaired collection.
\* ------------------------------------------------------------------------
C31_RepairedNeverCrosses ==
  geo.stage # "input" =>
    /\ ~SomeRing(geo.once, StillWide)
    /\ \A i \in DOMAIN geo.once : ~featureCrossesAntimeridian(geo.once[i])

\* ------------------------------------------------------------------------
\* C32: when the collection is wider than 180 degrees, the fit bounds are
\* those of the main subset (features at most 180 degrees wide whose centre
\* longitude is inside the window -130..170) if that subset is not empty,
\* and the raw bounds otherwise; a collection at most 180 degrees wide
\* keeps all its features.  The end points of the window are read either
\* way; a feature without any position is in no subset.
\* ------------------------------------------------------------------------
LngsOfFeature(feature) == {pt[1] : pt \in PointsOfGeometry(feature.geometry)}

LngSpan(lngs) ==
  (CHOOSE x \in lngs : \A y \in lngs : x >= y)
    - (CHOOSE x \in lngs : \A y \in lngs : x <= y)

\* Twice the centre longitude.
LngCentre2(lngs) ==
  (CHOOSE x \in lngs : \A y \in lngs : x >= y)
    + (CHOOSE x \in lngs : \A y \in lngs : x <= y)

InWindow(lngs, closed) ==
  IF closed THEN LngCentre2(lngs) >= -260 /\ LngCentre2(lngs) <= 340
            ELSE LngCentre2(lngs) > -260 /\ LngCentre2(lngs) < 340

MainSubset(fc, closed) ==
  {i \in DOMAIN fc :
     /\ LngsOfFeature(fc[i]) # {}
     /\ LngSpan(LngsOfFeature(fc[i])) <= 180
     /\ InWindow(LngsOfFeature(fc[i]), closed)}

RawLngs(fc) == {pt[1] : pt \in PointsOf(fc)}

IsWide(fc) == RawLngs(fc) # {} /\ LngSpan(RawLngs(fc)) > 180

ExpectedBounds(fc, closed) ==
  IF IsWide(fc) /\ MainSubset(fc, closed) # {}
    THEN PaddedCorners(bbox(UNION {PointsOfGeometry(fc[i].geometry) :
                                     i \in MainSubset(fc, closed)}))
    ELSE PaddedCorners(bbox(PointsOf(fc)))

C32_BoundsFromMainSubset ==
  /\ geo.stage \in {"bounded", "fitted"} =>
       \E closed \in BOOLEAN : geo.bounds = ExpectedBounds(geo.once, closed)
  /\ geo.mapView.kind = "fitBounds" =>
       \E closed \in BOOLEAN :
         geo.mapView.bounds = ExpectedBounds(geo.once, closed)

\* Bounds were computed for a collection wider than 180 degrees from which
\* one feature was excluded and one was kept.
C32_Witness ==
  /\ geo.stage = "bounded"
  /\ IsWide(geo.once)
  /\ MainSubset(geo.once, FALSE) # {}
  /\ MainSubset(geo.once, TRUE) # DOMAIN geo.once
  /\ geo.bounds # PaddedCorners(bbox(PointsOf(geo.once)))

\* ------------------------------------------------------------------------
\* C40: the bounds filter of calculateFitBounds and SiteMap.fitToBounds and
\* the filter written out in MapContainer give the same padded, clamped
\* bounds for every collection with finite bounds, also when the centre
\* longitude of a feature is exactly -130 or 170.
\* ------------------------------------------------------------------------
C40_FiltersAgree ==
  (geo.stage = "fitted" /\ geo.mcFit # <<>>) => geo.mcFit = geo.bounds

\* ------------------------------------------------------------------------
\* C33: the zoom computed for a box is in [1, 15], also for a box of zero
\* span, and a box that is no larger than another in both dimensions gets
\* a zoom that is no smaller.
\* ------------------------------------------------------------------------
\* The spans of a box; those of the box without positions are infinite.
Width(box) ==
  IF box = EmptyBox THEN PosInf
  ELSE IF box[3] >= box[1] THEN box[3] - box[1] ELSE box[1] - box[3]
Height(box) ==
  IF box = EmptyBox THEN PosInf
  ELSE IF box[4] >= box[2] THEN box[4] - box[2] ELSE box[2] - box[4]

NoLarger(a, b) == Width(a) <= Width(b) /\ Height(a) <= Height(b)

C33_ZoomClampedMonotone ==
  /\ zoom.stage # "input" =>
       /\ zoom.zoomA >= 2 /\ zoom.zoomA <= 30
       /\ zoom.zoomB >= 2 /\ zoom.zoomB <= 30
       /\ NoLarger(zoom.a, zoom.b) => zoom.zoomA >= zoom.zoomB
  /\ zoom.stage = "viewed" =>
       /\ zoom.viewA >= 2 /\ zoom.viewA <= 30
       /\ zoom.viewB >= 2 /\ zoom.viewB <= 30
       /\ NoLarger(zoom.a, zoom.b) => zoom.viewA >= zoom.viewB

\* A box of zero span got zoom 15 and a box of 10 by 5 degrees a smaller
\* zoom above the lower limit.
C33_Witness ==
  /\ zoom.stage = "zoomed"
  /\ Width(zoom.a) = 0 /\ Height(zoom.a) = 0
  /\ Width(zoom.b) = 640
  /\ zoom.zoomA = 30
  /\ zoom.zoomB > 2 /\ zoom.zoomB < 30

\* ------------------------------------------------------------------------
\* C34: the file of an entity is named by the slug of its display name
\* (lower case, every run of characters outside a-z and 0-9 replaced by
\* one hyphen, no hyphen at either end) followed by -admin, and the path
\* the loader requests is the file the splitter wrote for the same name.
\* ------------------------------------------------------------------------
RECURSIVE SlugFrom(_, _, _)
\* The slug of the characters of str, read from left to right: acc is the
\* slug so far, gap tells whether a run of other characters was passed.
SlugFrom(str, acc, gap) ==
  IF str = <<>> THEN acc
  ELSE LET c == LowerCaseOf(Head(str)) IN
       IF c \in {"a", "b", "1"}
         THEN SlugFrom(Tail(str),
                       IF gap /\ acc # <<>> THEN acc \o <<"-", c>>
                                             ELSE acc \o <<c>>,
                       FALSE)
         ELSE SlugFrom(Tail(str), acc, TRUE)

C34_SlugKey ==
  /\ slug.stage # "input" =>
       slug.path = <<"/geo/admin-by-country/">>
                     \o SlugFrom(slug.name, <<>>, FALSE) \o <<"-admin.json">>
  /\ slug.stage = "written" => slug.written = slug.path

\* The name "A -b" was requested and written as a-b-admin.json.
C34_Witness ==
  /\ slug.stage = "written"
  /\ slug.name = <<"A", " ", "-", "b">>
  /\ slug.path = <<"/geo/admin-by-country/", "a", "-", "b", "-admin.json">>

\* ------------------------------------------------------------------------
\* C35: the transition lock set by focus, goBack or exitFocus is held until
\* that call's own load has completed and its own settle timer has fired:
\* a settle timer that fires while another settle timer or the load of the
\* current level is still pending does not release the lock.
\* ------------------------------------------------------------------------
C35_LockHeldUntilSettled ==
  [][(TimerFired /\ (timers > 1 \/ \E l \in loads : l.mounted))
       => isTransitioning']_vars

\* ------------------------------------------------------------------------
\* C36: at a level above 0 a stored focused feature is the feature of the
\* entity on top of the stack, and a view fitted to a feature is fitted to
\* the feature of that entity.
\* ------------------------------------------------------------------------
C36_FeatureIsTopEntity ==
  (focusLevel > 0 /\ focusedFeature # Null) =>
    /\ entityStack # <<>>
    /\ entityStack[Len(entityStack)].name = focusedFeature

\* ------------------------------------------------------------------------
\* C37: in MapContainer the admin boundaries and the pending fit-to-bounds
\* request are null whenever no country is focused.
\* ------------------------------------------------------------------------
C37_NothingShownWithoutFocus ==
  focusedCountry = Null => (adminBoundaries = Null /\ mcFitToBounds = Null)

\* ------------------------------------------------------------------------
\* C38: a fetch that was in flight across a clearCache() call does not
\* insert its result.  When the operation before a settling fetch was
\* clearCache(), that fetch was started before the clear, so its path has
\* no entry afterwards.
\* ------------------------------------------------------------------------
C38_ClearOutlivesFetches ==
  [][\A p \in Paths : \A o \in FetchOutcomes : \A r \in Revisions :
       (lastLoad.op = "clear" /\ FetchSettled(p, o, r))
         => ~MapHas(geoCache', p)]_vars

\* ------------------------------------------------------------------------
\* C39: when a backend data request fails (it throws, its body cannot be
\* decoded, or the backend answers with a non-success status), the backend
\* is recorded as unhealthy with a fresh check time, so that requests made
\* within the check interval skip the backend.
\* ------------------------------------------------------------------------
C39_FailureMarksUnhealthy ==
  [][\A c \in BagToSet(requests) : \A o \in ApiOutcomes \ {"ok"} :
       ApiSettled(c, o)
         => /\ ~backendHealthStatus'.isHealthy
            /\ now' - backendHealthStatus'.lastChecked < CHECK_INTERVAL_MS]_vars
====
